---- MODULE Spec2Model ----
(***************************************************************************)
(* Budget-planning backend: the entry store, the gap optimizer             *)
(* (agents/optimization_agent.py) and the conflict detector                *)
(* (agents/conflict_agent.py).                                             *)
(*                                                                         *)
(* Texts are sequences of characters, one string per character.  TLA+      *)
(* strings are ASCII, so a Polish letter is written as its base letter     *)
(* followed by "_" ("s_" is s-acute, "e_" is e-ogonek, ...): still one     *)
(* character of the text.  Money is an exact rational: an amount is an     *)
(* integer number of 1/MoneyScale thousand PLN, floating-point rounding    *)
(* of the arithmetic is not modelled.                                      *)
(***************************************************************************)
EXTENDS Integers, Sequences, FiniteSets, TLC

(* None of an optional number, and a number that is given *)
None == <<>>
Some(v) == <<v>>

(* bounds of the model *)
MaxEntries == 2     \* rows of budget_entries
MaxOps == 2         \* requests that write to the store, per behaviour
MaxConflictEntries == 3   \* rows of budget_entries when conflicts are detected
MaxForecastYears == 5    \* forecast_years of a forecast request is at most this
MaxAnomalyEntries == 11  \* rows of the stores the anomaly detection is run on

(* kwota_2025 .. kwota_2029: the five yearly amount columns of BudgetEntry *)
FirstYear == 2025
LastYear == 2029
Years == FirstYear..LastYear

(* 1 thousand PLN = MoneyScale units; 20 * 20 * 10 keeps two consolidations *)
(* (x 17/20) and a 20% or 30% reduction of whole amounts exact.             *)
MoneyScale == 20 * 20 * 10

Max(a, b) == IF a >= b THEN a ELSE b
Min(a, b) == IF a <= b THEN a ELSE b

RECURSIVE GCD(_, _)
GCD(a, b) == IF b = 0 THEN a ELSE GCD(b, a % b)

(* A non-negative rational, in lowest terms. *)
Frac(n, d) == LET g == GCD(n, d) IN [num |-> n \div g, den |-> d \div g]
FracGeq(q, n, d) == q.num * d >= n * q.den
FracLess(q, n, d) == q.num * d < n * q.den

(* ----------------------------- texts ----------------------------------- *)

UpperCase == {"L", "A", "N", "P", "W", "R", "D"}
Punctuation == {"-", ",", ".", "[", "]", ":"}
Whitespace == {" ", "\n"}

(* str.lower() on one character *)
LowerChar(c) ==
    CASE c = "L" -> "l" [] c = "A" -> "a" [] c = "N" -> "n" [] c = "P" -> "p"
      [] c = "W" -> "w" [] c = "R" -> "r" [] c = "D" -> "d" [] OTHER -> c

Lower(s) == [i \in 1..Len(s) |-> LowerChar(s[i])]

(* A text column that is NULL and one that holds '' are both the empty     *)
(* text: the code reads a text column as (value or '') or for its truth.   *)
NoText == <<>>

(* ' '.join(fields) *)
RECURSIVE JoinSpace(_)
JoinSpace(fields) ==
    IF Len(fields) = 0 THEN <<>>
    ELSE IF Len(fields) = 1 THEN fields[1]
    ELSE fields[1] \o <<" ">> \o JoinSpace(Tail(fields))

(* re.sub(r'[^\w\s]', ' ', content) *)
StripPunctuation(s) ==
    [i \in 1..Len(s) |-> IF s[i] \in Punctuation THEN " " ELSE s[i]]

(* re.sub(r'\s+', ' ', content).strip() *)
RECURSIVE CollapseFrom(_, _, _)
CollapseFrom(s, i, pendingSpace) ==
    IF i > Len(s) THEN <<>>
    ELSE IF s[i] \in Whitespace THEN CollapseFrom(s, i + 1, TRUE)
    ELSE (IF pendingSpace THEN <<" ">> ELSE <<>>) \o <<s[i]>>
         \o CollapseFrom(s, i + 1, FALSE)

CollapseWhitespace(s) ==
    LET c == CollapseFrom(s, 1, FALSE)
    IN  IF Len(c) > 0 /\ s[1] \in Whitespace THEN Tail(c) ELSE c

(* keyword in content *)
MatchesAt(kw, s, p) == \A k \in 1..Len(kw) : s[p + k - 1] = kw[k]
Contains(s, kw) ==
    \E p \in 1..(Len(s) - Len(kw) + 1) : MatchesAt(kw, s, p)
ContainsAny(s, kws) == \E kw \in kws : Contains(s, kw)

CATEGORY_KEYWORDS ==
    [ software_licenses |->
        {<<"l","i","c","e","n","c","j","a">>,
         <<"l","i","c","e","n","s","e">>,
         <<"m","i","c","r","o","s","o","f","t">>,
         <<"o","f","f","i","c","e">>,
         <<"o","p","r","o","g","r","a","m","o","w","a","n","i","e">>,
         <<"s","o","f","t","w","a","r","e">>,
         <<"s","u","b","s","k","r","y","p","c","j","a">>},
      hardware |->
        {<<"s","e","r","w","e","r">>,
         <<"s","e","r","v","e","r">>,
         <<"s","p","r","z","e_","t">>,
         <<"h","a","r","d","w","a","r","e">>,
         <<"k","o","m","p","u","t","e","r">>,
         <<"l","a","p","t","o","p">>,
         <<"u","r","z","a_","d","z","e","n","i","a">>},
      network |->
        {<<"s","i","e","c","i","o","w","e">>,
         <<"n","e","t","w","o","r","k">>,
         <<"s","w","i","t","c","h">>,
         <<"r","o","u","t","e","r">>,
         <<"f","i","r","e","w","a","l","l">>,
         <<"w","i","f","i">>,
         <<"l","a","n">>,
         <<"w","a","n">>},
      consulting |->
        {<<"k","o","n","s","u","l","t","i","n","g">>,
         <<"c","o","n","s","u","l","t","i","n","g">>,
         <<"d","o","r","a","d","z","t","w","o">>,
         <<"e","k","s","p","e","r","t","y","z","a">>,
         <<"a","n","a","l","i","z","a">>,
         <<"a","u","d","y","t">>},
      training |->
        {<<"s","z","k","o","l","e","n","i","e">>,
         <<"t","r","a","i","n","i","n","g">>,
         <<"k","u","r","s">>,
         <<"c","e","r","t","y","f","i","k","a","c","j","a">>,
         <<"e","d","u","k","a","c","j","a">>},
      maintenance |->
        {<<"u","t","r","z","y","m","a","n","i","e">>,
         <<"m","a","i","n","t","e","n","a","n","c","e">>,
         <<"s","e","r","w","i","s">>,
         <<"s","u","p","p","o","r","t">>,
         <<"w","s","p","a","r","c","i","e">>},
      renovation |->
        {<<"r","e","m","o","n","t">>,
         <<"r","e","n","o","v","a","t","i","o","n">>,
         <<"m","o","d","e","r","n","i","z","a","c","j","a">>,
         <<"a","d","a","p","t","a","c","j","a">>},
      security |->
        {<<"b","e","z","p","i","e","c","z","e","n_","s","t","w","o">>,
         <<"s","e","c","u","r","i","t","y">>,
         <<"c","y","b","e","r">>,
         <<"o","c","h","r","o","n","a">>,
         <<"m","o","n","i","t","o","r","i","n","g">>} ]
PROTECTED_KEYWORDS ==
    {<<"c","y","b","e","r","b","e","z","p","i","e","c","z","e","n_","s","t","w","o">>,
     <<"c","y","b","e","r">>,
     <<"s","e","c","u","r","i","t","y">>,
     <<"b","e","z","p","i","e","c","z","e","n_","s","t","w","o">>,
     <<"e","i","d","a","s">>,
     <<"r","o","z","p","o","r","z","a_","d","z","e","n","i","e">>,
     <<"u","s","t","a","w","a">>,
     <<"p","r","a","w","n","e">>,
     <<"o","b","l","i","g","a","t","o","r","y","j","n","e">>,
     <<"a","u","d","i","t">>,
     <<"a","u","d","y","t">>,
     <<"k","o","n","t","r","o","l","a">>,
     <<"n","i","s","2">>,
     <<"d","o","r","a">>}
DEFERRABLE_KEYWORDS ==
    {<<"r","e","m","o","n","t">>,
     <<"r","e","n","o","v","a","t","i","o","n">>,
     <<"m","o","d","e","r","n","i","z","a","c","j","a">>,
     <<"s","z","k","o","l","e","n","i","e">>,
     <<"t","r","a","i","n","i","n","g">>,
     <<"n","o","w","e">>,
     <<"r","o","z","w","o_","j">>,
     <<"e","n","h","a","n","c","e","m","e","n","t">>,
     <<"u","p","g","r","a","d","e">>,
     <<"p","l","a","n","o","w","a","n","e">>}

(* ------------------- difflib.SequenceMatcher.ratio --------------------- *)
(* No junk and no "popular" elements: autojunk only acts on a second       *)
(* sequence of 200 or more characters, beyond the texts modelled here.     *)

(* length of the longest common run of a[i..ahi] and b[j..bhi] *)
RECURSIVE CommonRun(_, _, _, _, _, _)
CommonRun(a, b, i, j, ahi, bhi) ==
    IF i <= ahi /\ j <= bhi /\ a[i] = b[j]
    THEN 1 + CommonRun(a, b, i + 1, j + 1, ahi, bhi)
    ELSE 0

(* find_longest_match(alo, ahi, blo, bhi), bounds inclusive: the longest   *)
(* matching block; of those the one starting earliest in a, and of those   *)
(* the one starting earliest in b.  [i, j, size], size 0 when none.        *)
FindLongestMatch(a, b, alo, ahi, blo, bhi) ==
    LET starts == (alo..ahi) \X (blo..bhi)
        run(p) == CommonRun(a, b, p[1], p[2], ahi, bhi)
        best == IF starts = {} THEN 0
                ELSE CHOOSE k \in {run(p) : p \in starts} :
                         \A p \in starts : run(p) <= k
    IN  IF best = 0 THEN [i |-> alo, j |-> blo, size |-> 0]
        ELSE LET longest == {p \in starts : run(p) = best}
                 i0 == CHOOSE i \in {p[1] : p \in longest} :
                           \A p \in longest : i <= p[1]
                 j0 == CHOOSE j \in {p[2] : p \in {q \in longest : q[1] = i0}} :
                           \A p \in {q \in longest : q[1] = i0} : j <= p[2]
             IN  [i |-> i0, j |-> j0, size |-> best]

(* sum of the sizes of get_matching_blocks(): the longest block, then the  *)
(* same to its left and to its right                                       *)
RECURSIVE MatchedChars(_, _, _, _, _, _)
MatchedChars(a, b, alo, ahi, blo, bhi) ==
    IF alo > ahi \/ blo > bhi THEN 0
    ELSE LET m == FindLongestMatch(a, b, alo, ahi, blo, bhi)
         IN  IF m.size = 0 THEN 0
             ELSE m.size
                  + MatchedChars(a, b, alo, m.i - 1, blo, m.j - 1)
                  + MatchedChars(a, b, m.i + m.size, ahi, m.j + m.size, bhi)

(* ratio() = 2.0 * matches / (len(a) + len(b)), 1.0 for two empty sequences *)
SequenceMatcherRatio(a, b) ==
    IF Len(a) + Len(b) = 0 THEN Frac(1, 1)
    ELSE Frac(2 * MatchedChars(a, b, 1, Len(a), 1, Len(b)), Len(a) + Len(b))

(* --------------------------- ConflictAgent ----------------------------- *)

SIMILARITY_THRESHOLD_PCT == 60
DUPLICATE_PCT == 85
OVERLAP_PCT == 70

Categories == DOMAIN CATEGORY_KEYWORDS

NormalizeContent(entry) ==
    CollapseWhitespace(StripPunctuation(Lower(JoinSpace(
        <<entry.nazwa_zadania, entry.opis_projektu,
          entry.szczegolowe_uzasadnienie>>))))

ContentCategories(content) ==
    {c \in Categories : ContainsAny(content, CATEGORY_KEYWORDS[c])}

(* the category similarity taking two untagged texts as agreeing *)
CategorySimilarityOfUntagged(content_a, content_b) ==
    LET categories_a == ContentCategories(content_a)
        categories_b == ContentCategories(content_b)
    IN  IF categories_a \cup categories_b = {} THEN Frac(1, 1)
        ELSE Frac(Cardinality(categories_a \cap categories_b),
                  Cardinality(categories_a \cup categories_b))

CategorySimilarity(content_a, content_b) ==
    LET categories_a == ContentCategories(content_a)
        categories_b == ContentCategories(content_b)
    IN  IF categories_a = {} \/ categories_b = {} THEN Frac(0, 1)
        ELSE Frac(Cardinality(categories_a \cap categories_b),
                  Cardinality(categories_a \cup categories_b))

(* string_sim * 0.4 + category_sim * 0.4 + paragraf_sim * 0.2 *)
WeightedSimilarity(string_sim, category_sim, paragraf_sim) ==
    Frac(2 * string_sim.num * category_sim.den
           + 2 * category_sim.num * string_sim.den
           + paragraf_sim * string_sim.den * category_sim.den,
         5 * string_sim.den * category_sim.den)

CalculateSimilarity(entry_a, entry_b) ==
    LET content_a == NormalizeContent(entry_a)
        content_b == NormalizeContent(entry_b)
    IN  WeightedSimilarity(
            SequenceMatcherRatio(content_a, content_b),
            CategorySimilarity(content_a, content_b),
            IF entry_a.paragraf = entry_b.paragraf THEN 1 ELSE 0)

(* round(similarity, 2), in hundredths *)
Round2(q) == (200 * q.num + q.den) \div (2 * q.den)

(* the type taken from the rounded similarity that is reported *)
ConflictTypeOfRounded(similarity) ==
    IF Round2(similarity) >= DUPLICATE_PCT THEN "duplicate"
    ELSE IF Round2(similarity) >= OVERLAP_PCT THEN "overlap"
    ELSE "semantic_similar"

ConflictType(similarity) ==
    IF FracGeq(similarity, DUPLICATE_PCT, 100) THEN "duplicate"
    ELSE IF FracGeq(similarity, OVERLAP_PCT, 100) THEN "overlap"
    ELSE "semantic_similar"


(* -------------------------- OptimizationAgent -------------------------- *)

(* PriorityLevel, models.py; "a_" and "s_" stand for the Polish letters *)
OBOWIAZKOWY == <<"o","b","o","w","i","a_","z","k","o","w","y">>
WYSOKI == <<"w","y","s","o","k","i">>
SREDNI == <<"s_","r","e","d","n","i">>
NISKI == <<"n","i","s","k","i">>
UZNANIOWY == <<"u","z","n","a","n","i","o","w","y">>
PriorityLevel == {OBOWIAZKOWY, WYSOKI, SREDNI, NISKI, UZNANIOWY}

(* VALID_PRIORITIES, schemas.py *)
P_OBLIGATORY == <<"o","b","l","i","g","a","t","o","r","y">>
P_HIGH == <<"h","i","g","h">>
P_MEDIUM == <<"m","e","d","i","u","m">>
P_LOW == <<"l","o","w">>
P_DISCRETIONARY == <<"d","i","s","c","r","e","t","i","o","n","a","r","y">>
VALID_PRIORITIES == {P_OBLIGATORY, P_HIGH, P_MEDIUM, P_LOW, P_DISCRETIONARY}

PRIORITY_WEIGHTS ==
    [p \in PriorityLevel |->
        CASE p = OBOWIAZKOWY -> 100 [] p = WYSOKI -> 75 [] p = SREDNI -> 50
          [] p = NISKI -> 25 [] p = UZNANIOWY -> 10]

PODPISANA == <<"p","o","d","p","i","s","a","n","a">>
REALIZACJA == <<"r","e","a","l","i","z","a","c","j","a">>
W_TOKU == <<"w"," ","t","o","k","u">>
PLANOWANE == <<"p","l","a","n","o","w","a","n","e">>

(* the truth of a text column: neither NULL nor '' *)
Truthy(s) == s # NoText

GetEntryContent(entry) ==
    Lower(JoinSpace(<<entry.nazwa_zadania, entry.opis_projektu,
                      entry.szczegolowe_uzasadnienie, entry.uwagi>>))

ContractSigned(entry) ==
    Truthy(entry.umowy) /\ Contains(Lower(entry.umowy), PODPISANA)

StageInProgress(entry) ==
    /\ Truthy(entry.etap_dzialan)
    /\ \/ Contains(Lower(entry.etap_dzialan), REALIZACJA)
       \/ Contains(Lower(entry.etap_dzialan), W_TOKU)

StagePlanned(entry) ==
    /\ Truthy(entry.etap_dzialan)
    /\ ~StageInProgress(entry)
    /\ Contains(Lower(entry.etap_dzialan), PLANOWANE)

CalculateDeferralScore(entry) ==
    LET priority_str == IF Truthy(entry.priority) THEN entry.priority ELSE SREDNI
        base == IF priority_str \in PriorityLevel
                THEN 100 - PRIORITY_WEIGHTS[priority_str]
                ELSE 50
        content == GetEntryContent(entry)
        s1 == base - (IF ContainsAny(content, PROTECTED_KEYWORDS) THEN 30 ELSE 0)
        s2 == s1 + (IF ContainsAny(content, DEFERRABLE_KEYWORDS) THEN 20 ELSE 0)
        s3 == s2 - (IF ContractSigned(entry) THEN 40 ELSE 0)
        s4 == s3 + (IF StageInProgress(entry) THEN -25
                    ELSE IF StagePlanned(entry) THEN 15 ELSE 0)
    IN  Max(0, Min(100, s4))

IsDeferrable(entry) ==
    IF ContractSigned(entry) THEN FALSE
    ELSE IF StageInProgress(entry) THEN FALSE
    ELSE IF ContainsAny(GetEntryContent(entry), PROTECTED_KEYWORDS) THEN FALSE
    ELSE entry.priority \in {NISKI, UZNANIOWY}

(* getattr(entry, f"kwota_{year}") or 0, for a year that has a column *)
Kwota(entry, year) == entry.kwota[year]

(* 0.3 if entry.priority in ['sredni', 'niski'] else 0.2, in tenths *)
ReductionRate10(entry) == IF entry.priority \in {SREDNI, NISKI} THEN 3 ELSE 2

(* ORDER BY priority ASC on a text column of SQLite: NULL and '' first,    *)
(* then the UTF-8 bytes compared, so every ASCII letter sorts before a     *)
(* Polish one.                                                             *)
CharOrder ==
    <<" ", "a","b","c","d","e","f","g","h","i","j","k","l","m","n","o","p",
      "q","r","s","t","u","v","w","x","y","z", "a_", "e_", "s_">>
CharRank(c) == CHOOSE i \in 1..Len(CharOrder) : CharOrder[i] = c

RECURSIVE TextLessFrom(_, _, _)
TextLessFrom(a, b, i) ==
    IF i > Len(b) THEN FALSE
    ELSE IF i > Len(a) THEN TRUE
    ELSE IF a[i] = b[i] THEN TextLessFrom(a, b, i + 1)
    ELSE CharRank(a[i]) < CharRank(b[i])

PrioritySortsBefore(p, q) == TextLessFrom(p, q, 1)

(* .filter(GlobalLimit.year == year): the index of .first(), 0 when no row *)
GlobalLimitIndex(ls, year) ==
    IF \E i \in 1..Len(ls) : ls[i].year = year
    THEN CHOOSE i \in 1..Len(ls) :
             /\ ls[i].year = year
             /\ \A j \in 1..(i - 1) : ls[j].year # year
    ELSE 0

(* func.sum(amount_field) over budget_entries, or 0 *)
RECURSIVE SumKwota(_, _)
SumKwota(es, year) ==
    IF Len(es) = 0 THEN 0
    ELSE Kwota(es[Len(es)], year) + SumKwota(SubSeq(es, 1, Len(es) - 1), year)

AnalyzeBudgetGap(es, ls, year) ==
    LET g == GlobalLimitIndex(ls, year)
        current_total == SumKwota(es, year)
    IN  IF g = 0
        THEN [error |-> TRUE, is_over_limit |-> FALSE]
        ELSE [error |-> FALSE,
              global_limit |-> ls[g].total_limit,
              current_total |-> current_total,
              variance |-> current_total - ls[g].total_limit,
              is_over_limit |-> current_total - ls[g].total_limit > 0]

(* the cuttable query without its is_obligatory filter *)
CuttableIdsUnfiltered(es, year) ==
    {i \in 1..Len(es) : Kwota(es[i], year) > 0}

(* the rows of the cuttable_entries query *)
CuttableIds(es, year) ==
    {i \in 1..Len(es) : es[i].is_obligatory = FALSE /\ Kwota(es[i], year) > 0}

(* The orders in which the query may return them: sorted by priority, rows *)
(* of equal priority in any order (the ORDER BY has no second key).        *)
CuttableOrders(es, year) ==
    LET ids == CuttableIds(es, year)
        n == Cardinality(ids)
    IN  {o \in [1..n -> ids] :
            /\ \A i, j \in 1..n : i # j => o[i] # o[j]
            /\ \A i, j \in 1..n :
                 i < j => ~PrioritySortsBefore(es[o[j]].priority, es[o[i]].priority)}

(* One suggestion; savings and suggested amount in tenths of a money unit. *)
Suggestion(es, id, year) ==
    LET entry == es[id]
        entry_amount == Kwota(entry, year)
        is_deferrable == IsDeferrable(entry)
        savings10 == IF is_deferrable THEN 10 * entry_amount
                     ELSE ReductionRate10(entry) * entry_amount
    IN  [entry_id |-> id,
         current_amount |-> entry_amount,
         suggested_amount10 |-> 10 * entry_amount - savings10,
         savings10 |-> savings10,
         action |-> IF is_deferrable THEN "defer" ELSE "reduce",
         priority |-> IF Truthy(entry.priority) THEN entry.priority ELSE SREDNI,
         deferral_score |-> CalculateDeferralScore(entry),
         is_deferrable |-> is_deferrable]

(* the selection loop leaving after its first suggestion *)
SelectCutsOnce(es, order, i, year, cumulative10, target10) ==
    IF i > Len(order) \/ cumulative10 >= target10 THEN <<>>
    ELSE <<Suggestion(es, order[i], year)>>

(* the loop over cuttable_entries: stop once cumulative_savings >= target *)
RECURSIVE SelectCuts(_, _, _, _, _, _)
SelectCuts(es, order, i, year, cumulative10, target10) ==
    IF i > Len(order) \/ cumulative10 >= target10 THEN <<>>
    ELSE LET s == Suggestion(es, order[i], year)
         IN  <<s>> \o SelectCuts(es, order, i + 1, year,
                                 cumulative10 + s.savings10, target10)

RECURSIVE SumSavings10(_)
SumSavings10(ss) ==
    IF Len(ss) = 0 THEN 0 ELSE ss[1].savings10 + SumSavings10(Tail(ss))

(* suggestions.sort(key=deferral_score, reverse=True): stable *)
RECURSIVE InsertByScore(_, _)
InsertByScore(sorted, s) ==
    IF Len(sorted) = 0 THEN <<s>>
    ELSE IF sorted[1].deferral_score >= s.deferral_score
         THEN <<sorted[1]>> \o InsertByScore(Tail(sorted), s)
         ELSE <<s>> \o sorted

RECURSIVE SortByScoreDesc(_)
SortByScoreDesc(ss) ==
    IF Len(ss) = 0 THEN <<>>
    ELSE InsertByScore(SortByScoreDesc(SubSeq(ss, 1, Len(ss) - 1)), ss[Len(ss)])

(* _get_protected_items *)
ProtectedItems(es, year) ==
    {i \in 1..Len(es) : es[i].is_obligatory = TRUE /\ Kwota(es[i], year) > 0}

(* generate_cut_suggestions(target_reduction, year), the rows of the       *)
(* cuttable query returned in `order`                                      *)
GenerateCutSuggestions(es, ls, target_reduction, year, order) ==
    LET gap_analysis == AnalyzeBudgetGap(es, ls, year)
    IN  IF ~gap_analysis.is_over_limit
        THEN [op |-> "suggest_cuts", year |-> year, over_limit |-> FALSE,
              suggestions |-> <<>>]
        ELSE LET target == IF target_reduction = None \/ target_reduction = Some(0)
                           THEN gap_analysis.variance ELSE target_reduction[1]
                 picked == SelectCuts(es, order, 1, year, 0, 10 * target)
                 cumulative10 == SumSavings10(picked)
             IN  [op |-> "suggest_cuts", year |-> year, over_limit |-> TRUE,
                  target_reduction |-> target,
                  achievable_reduction10 |-> cumulative10,
                  can_meet_target |-> cumulative10 >= 10 * target,
                  suggestions |-> SortByScoreDesc(picked),
                  protected_items |-> ProtectedItems(es, year)]

(* ------------------------------ the store ------------------------------ *)

VARIABLES
    entries,    \* table budget_entries: row i has id i (autoincrement, no delete)
    limits,     \* table global_limits, in insertion order
    conflicts,  \* table budget_conflicts: row i has id i
    last,       \* the response to the latest request
    ops,        \* number of requests served that write to the store
    departments \* table departments: edits_locked and edit_deadline by id

vars == <<entries, limits, conflicts, last, ops, departments>>

Amt(n) == n * MoneyScale
Kw(a, b, c, d, e) ==
    [y \in Years |->
        CASE y = 2025 -> Amt(a) [] y = 2026 -> Amt(b) [] y = 2027 -> Amt(c)
          [] y = 2028 -> Amt(d) [] y = 2029 -> Amt(e)]

T_LAN_A == <<"L","A","N","-","a">>
T_LAN_2_BC == <<"l","a","n"," ","2"," ","b","c">>
T_WAN_PLAN == <<"w","a","n"," ","p","l","a","n">>
T_DORA == <<"d","o","r","a">>
T_REMONT == <<"r","e","m","o","n","t">>
T_PODPISANA == <<"P","o","d","p","i","s","a","n","a">>

NewEntry(dept, par, nazwa, kwota, priority, oblig, etap, umowy) ==
    [department_id |-> dept, paragraf |-> par,
     nazwa_zadania |-> nazwa, opis_projektu |-> NoText,
     szczegolowe_uzasadnienie |-> NoText,
     kwota |-> kwota, priority |-> priority, status |-> "draft",
     is_obligatory |-> oblig, etap_dzialan |-> etap, umowy |-> umowy,
     uwagi |-> NoText, compliance_validated |-> FALSE,
     zadanie_inwestycyjne |-> NoText, beneficjent_zadaniowy |-> NoText]

(* Rows the store can hold: each is what create_entry followed by          *)
(* update_entry (priority, is_obligatory) or the demo loader leaves.       *)
EntryUniverse ==
    { NewEntry(1, 4210, T_LAN_A, Kw(100, 0, 0, 0, 50), NISKI, FALSE, NoText, T_PODPISANA),
      NewEntry(2, 4210, T_LAN_2_BC, Kw(50, 20, 0, 0, 0), UZNANIOWY, FALSE, NoText, NoText),
      NewEntry(2, 4300, T_WAN_PLAN, Kw(40, 0, 0, 0, 0), SREDNI, FALSE, PLANOWANE, NoText),
      NewEntry(1, 4210, T_DORA, Kw(100, 100, 100, 100, 100), OBOWIAZKOWY, TRUE, NoText, NoText),
      NewEntry(2, 4210, T_DORA, Kw(30, 0, 0, 0, 0), WYSOKI, FALSE, W_TOKU, NoText),
      NewEntry(1, 4300, T_REMONT, Kw(0, 60, 0, 0, 0), P_LOW, FALSE, NoText, NoText) }

Departments == {1, 2}

(* ---- PUT /api/limits/{year} ---- *)
SetGlobalLimit(year, limit) ==
    /\ UNCHANGED departments
    /\ ops < MaxOps
    /\ limits' =
         IF GlobalLimitIndex(limits, year) # 0
         THEN LET i == GlobalLimitIndex(limits, year)
              IN  [limits EXCEPT ![i].total_limit = limit,
                                 ![i].variance = limits[i].current_total - limit]
         ELSE Append(limits, [year |-> year, total_limit |-> limit,
                              current_total |-> 0, variance |-> 0])
    /\ last' = [op |-> "set_global_limit", year |-> year]
    /\ ops' = ops + 1
    /\ UNCHANGED <<entries, conflicts>>

(* ---- POST /api/optimization/suggest-cuts ---- *)
SuggestCuts(target_reduction, year) ==
    /\ UNCHANGED departments
    /\ \E order \in CuttableOrders(entries, year) :
         last' = GenerateCutSuggestions(entries, limits, target_reduction, year, order)
    /\ UNCHANGED <<entries, limits, conflicts, ops>>

(* The remarks appended to uwagi are single elements of the text: none of  *)
(* them contains a keyword of any list, whatever the numbers in it.        *)
DeferRemark(year) == "[ODROCZONO z " \o ToString(year) \o "]"
ReduceRemark(old_amount, new_amount) ==
    "[ZREDUKOWANO z " \o ToString(old_amount) \o " do " \o ToString(new_amount) \o "]"
AppendRemark(uwagi, remark) == uwagi \o <<"\n", remark>>

(* apply_suggestion on a row that exists, for a year that has a column.    *)
(* Deferring from the last year writes kwota_2030, which is no column of   *)
(* the table: the attribute is set on the object and never stored.         *)
AppliedEntry(entry, action, new_amount, year) ==
    LET old_amount == Kwota(entry, year)
        changed ==
            IF action = "defer"
            THEN [entry EXCEPT
                    !.kwota = [y \in Years |->
                                  IF y = year THEN 0
                                  ELSE IF y = year + 1 THEN entry.kwota[y] + old_amount
                                  ELSE entry.kwota[y]],
                    !.uwagi = AppendRemark(entry.uwagi, DeferRemark(year))]
            ELSE IF action = "reduce" /\ new_amount # None
            THEN [entry EXCEPT
                    !.kwota[year] = new_amount[1],
                    !.uwagi = AppendRemark(entry.uwagi,
                                           ReduceRemark(old_amount, new_amount[1]))]
            ELSE entry
    IN  [changed EXCEPT !.status = "needs_revision"]

(* ---- POST /api/optimization/apply/{entry_id} ---- *)
ApplySuggestion(entry_id, action, new_amount, year) ==
    /\ UNCHANGED departments
    /\ ops < MaxOps
    /\ ops' = ops + 1
    /\ UNCHANGED <<limits, conflicts>>
    /\ IF entry_id \notin 1..Len(entries)
       THEN /\ last' = [op |-> "apply_suggestion", success |-> FALSE,
                        entry_id |-> entry_id, action |-> action, year |-> year,
                        new_amount |-> new_amount]
            /\ UNCHANGED entries
       ELSE IF year \notin Years
       THEN \* getattr(entry, "kwota_2030") raises: no commit, HTTP 500
            /\ last' = [op |-> "apply_suggestion", success |-> FALSE,
                        entry_id |-> entry_id, action |-> action, year |-> year,
                        new_amount |-> new_amount]
            /\ UNCHANGED entries
       ELSE /\ entries' = [entries EXCEPT ![entry_id] =
                              AppliedEntry(entries[entry_id], action, new_amount, year)]
            /\ last' = [op |-> "apply_suggestion", success |-> TRUE,
                        entry_id |-> entry_id, action |-> action, year |-> year,
                        new_amount |-> new_amount,
                        old_amount |-> Kwota(entries[entry_id], year)]

(* ---- POST /api/conflicts/detect ---- *)

(* the rows of the detect query, in rowid order (a table scan of SQLite) *)
RECURSIVE PositiveIds(_, _, _)
PositiveIds(es, year, i) ==
    IF i > Len(es) THEN <<>>
    ELSE (IF Kwota(es[i], year) > 0 THEN <<i>> ELSE <<>>)
         \o PositiveIds(es, year, i + 1)

(* the pairs the two loops visit, in the order they visit them; a pair of  *)
(* one department is skipped                                               *)
RECURSIVE PairsFrom(_, _, _, _)
PairsFrom(es, ids, i, j) ==
    IF i > Len(ids) THEN <<>>
    ELSE IF j > Len(ids) THEN PairsFrom(es, ids, i + 1, i + 2)
    ELSE (IF es[ids[i]].department_id = es[ids[j]].department_id THEN <<>>
          ELSE << <<ids[i], ids[j]>> >>)
         \o PairsFrom(es, ids, i, j + 1)

EvaluatedPairs(es, year) == PairsFrom(es, PositiveIds(es, year, 1), 1, 2)

CreateConflict(es, a, b, similarity, year) ==
    [entry_a_id |-> a, entry_b_id |-> b,
     entry_a_amount |-> Kwota(es[a], year),
     entry_b_amount |-> Kwota(es[b], year),
     similarity_score |-> Round2(similarity),
     conflict_type |-> ConflictType(similarity),
     combined_amount |-> Kwota(es[a], year) + Kwota(es[b], year)]

(* _save_conflict: update the first record of the pair, in either order,   *)
(* or insert one                                                           *)
SamePair(c, a, b) ==
    \/ c.entry_a_id = a /\ c.entry_b_id = b
    \/ c.entry_a_id = b /\ c.entry_b_id = a

(* saving that never looks for a record of the pair *)
SaveConflictAlwaysInsert(cs, a, b, similarity, conflict_type) ==
    Append(cs, [entry_a_id |-> a, entry_b_id |-> b,
                similarity_score |-> similarity,
                conflict_type |-> conflict_type,
                resolution_status |-> "pending",
                resolution_notes |-> ""])

SaveConflict(cs, a, b, similarity, conflict_type) ==
    IF \E i \in 1..Len(cs) : SamePair(cs[i], a, b)
    THEN LET i == CHOOSE i \in 1..Len(cs) :
                      /\ SamePair(cs[i], a, b)
                      /\ \A j \in 1..(i - 1) : ~SamePair(cs[j], a, b)
         IN  [cs EXCEPT ![i].similarity_score = similarity,
                        ![i].conflict_type = conflict_type]
    ELSE Append(cs, [entry_a_id |-> a, entry_b_id |-> b,
                     similarity_score |-> similarity,
                     conflict_type |-> conflict_type,
                     resolution_status |-> "pending",
                     resolution_notes |-> ""])

(* the loop of detect_conflicts over the pairs: [found, saved] *)
RECURSIVE DetectLoop(_, _, _, _, _, _)
DetectLoop(es, pairs, k, year, found, cs) ==
    IF k > Len(pairs) THEN [found |-> found, saved |-> cs]
    ELSE LET a == pairs[k][1]
             b == pairs[k][2]
             similarity == CalculateSimilarity(es[a], es[b])
         IN  IF FracGeq(similarity, SIMILARITY_THRESHOLD_PCT, 100)
             THEN DetectLoop(es, pairs, k + 1, year,
                             Append(found, CreateConflict(es, a, b, similarity, year)),
                             SaveConflict(cs, a, b, similarity, ConflictType(similarity)))
             ELSE DetectLoop(es, pairs, k + 1, year, found, cs)

(* conflicts.sort(key=similarity_score, reverse=True): stable *)
RECURSIVE InsertBySimilarity(_, _)
InsertBySimilarity(sorted, c) ==
    IF Len(sorted) = 0 THEN <<c>>
    ELSE IF sorted[1].similarity_score >= c.similarity_score
         THEN <<sorted[1]>> \o InsertBySimilarity(Tail(sorted), c)
         ELSE <<c>> \o sorted

RECURSIVE SortBySimilarityDesc(_)
SortBySimilarityDesc(cs) ==
    IF Len(cs) = 0 THEN <<>>
    ELSE InsertBySimilarity(SortBySimilarityDesc(SubSeq(cs, 1, Len(cs) - 1)),
                            cs[Len(cs)])

DetectConflicts(year) ==
    /\ UNCHANGED departments
    /\ ops < MaxOps
    /\ ops' = ops + 1
    /\ LET r == DetectLoop(entries, EvaluatedPairs(entries, year), 1, year,
                           <<>>, conflicts)
       IN  /\ conflicts' = r.saved
           /\ last' = [op |-> "detect_conflicts", year |-> year,
                       conflicts |-> SortBySimilarityDesc(r.found)]
    /\ UNCHANGED <<entries, limits>>

(* ---- POST /api/conflicts/{conflict_id}/resolve ---- *)

ConsolidationRemark(remove_id) ==
    "[SKONSOLIDOWANO z pozycji " \o ToString(remove_id) \o "]"
TransferRemark(keep_entry_id) ==
    "[PRZENIESIONO do pozycji " \o ToString(keep_entry_id) \o "]"

(* the consolidated amount without the 15% discount *)
ConsolidatedUndiscounted(keep_amount, remove_amount) ==
    keep_amount + remove_amount

(* (keep_amount + remove_amount) * 0.85 *)
Consolidated(keep_amount, remove_amount) ==
    ((keep_amount + remove_amount) * 17) \div 20

(* the model's amounts stay exact: the discounted sums are whole units *)
ExactlyConsolidable(keep_entry, remove_entry) ==
    \A y \in Years : ((Kwota(keep_entry, y) + Kwota(remove_entry, y)) * 17) % 20 = 0

(* all five years zeroed on the removed row *)
RemovedYearsAll == Years

(* the years resolve_conflict zeroes on the removed row *)

RemovedYears == {2025, 2026, 2027}

ConsolidatedEntries(es, keep_entry_id, remove_id) ==
    [i \in 1..Len(es) |->
        IF i = keep_entry_id
        THEN [es[i] EXCEPT
                !.kwota = [y \in Years |->
                              Consolidated(Kwota(es[keep_entry_id], y),
                                           Kwota(es[remove_id], y))],
                !.uwagi = AppendRemark(es[i].uwagi, ConsolidationRemark(remove_id))]
        ELSE IF i = remove_id
        THEN [es[i] EXCEPT
                !.kwota = [y \in Years |->
                              IF y \in RemovedYears THEN 0 ELSE es[i].kwota[y]],
                !.uwagi = AppendRemark(es[i].uwagi, TransferRemark(keep_entry_id))]
        ELSE es[i]]

(* the row resolve_conflict takes as the removed one *)
RemoveIdOf(conflict, keep_entry_id) ==
    IF keep_entry_id = Some(conflict.entry_a_id)
    THEN conflict.entry_b_id ELSE conflict.entry_a_id

(* the consolidation is carried out: both rows were found *)
Consolidating(es, conflict, resolution, keep_entry_id) ==
    /\ resolution = "consolidate"
    /\ keep_entry_id # None
    /\ keep_entry_id[1] \in 1..Len(es)
    /\ RemoveIdOf(conflict, keep_entry_id) \in 1..Len(es)

(* the keep_entry_id check left out *)
NoKeepEntryIdUnchecked(keep_entry_id) == FALSE

(* not keep_entry_id: no id given, or the id 0 *)
NoKeepEntryId(keep_entry_id) ==
    keep_entry_id = None \/ keep_entry_id = Some(0)

ResolveConflict(conflict_id, resolution, keep_entry_id) ==
    /\ UNCHANGED departments
    /\ ops < MaxOps
    /\ ops' = ops + 1
    /\ UNCHANGED limits
    /\ IF conflict_id \notin 1..Len(conflicts)
       THEN /\ last' = [op |-> "resolve_conflict", success |-> FALSE,
                        conflict_id |-> conflict_id, resolution |-> resolution,
                        keep_entry_id |-> keep_entry_id]
            /\ UNCHANGED <<entries, conflicts>>
       ELSE IF resolution = "consolidate" /\ NoKeepEntryId(keep_entry_id)
       THEN /\ last' = [op |-> "resolve_conflict", success |-> FALSE,
                        conflict_id |-> conflict_id, resolution |-> resolution,
                        keep_entry_id |-> keep_entry_id]
            /\ UNCHANGED <<entries, conflicts>>
       ELSE LET conflict == conflicts[conflict_id]
                remove_id == RemoveIdOf(conflict, keep_entry_id)
                both == Consolidating(entries, conflict, resolution, keep_entry_id)
            IN  /\ both => ExactlyConsolidable(entries[keep_entry_id[1]], entries[remove_id])
                /\ entries' = IF both
                              THEN ConsolidatedEntries(entries, keep_entry_id[1], remove_id)
                              ELSE entries
                /\ conflicts' = [conflicts EXCEPT
                                   ![conflict_id].resolution_status = "resolved",
                                   ![conflict_id].resolution_notes = resolution]
                /\ last' = [op |-> "resolve_conflict", success |-> TRUE,
                            conflict_id |-> conflict_id, resolution |-> resolution,
                            keep_entry_id |-> keep_entry_id]

(* ---- POST /api/entries ---- *)

(* Request bodies of create_entry: BudgetEntryCreate, whose validator only *)
(* lets the priorities of VALID_PRIORITIES through.                        *)
CreateInputs ==
    { NewEntry(1, 4210, T_LAN_A, Kw(100, 0, 0, 0, 50), P_LOW, FALSE, NoText, T_PODPISANA),
      NewEntry(2, 4210, T_LAN_2_BC, Kw(50, 20, 0, 0, 0), P_DISCRETIONARY, FALSE, NoText, NoText),
      NewEntry(1, 4210, T_DORA, Kw(100, 100, 100, 100, 100), P_OBLIGATORY, TRUE, NoText, NoText) }

CreateEntry(body) ==
    /\ UNCHANGED departments
    /\ Len(entries) < MaxEntries
    /\ body.priority \in VALID_PRIORITIES
    /\ body.department_id \in Departments
    /\ entries' = Append(entries, [body EXCEPT !.status = "draft",
                                               !.compliance_validated = FALSE])
    /\ last' = [op |-> "create_entry", entry_id |-> Len(entries) + 1]
    /\ UNCHANGED <<limits, conflicts, ops>>

(* ---- PUT /api/entries/{entry_id} ---- *)

(* Request bodies of update_entry: BudgetEntryUpdate, the fields that are  *)
(* set; no field of it is validated.                                       *)
UpdateInputs ==
    { [priority |-> NISKI],
      [priority |-> OBOWIAZKOWY, is_obligatory |-> TRUE],
      [kwota_2025 |-> Amt(40)],
      [kwota_2026 |-> 0 - Amt(10), status |-> "submitted"] }

KwotaField(y) ==
    CASE y = 2025 -> "kwota_2025" [] y = 2026 -> "kwota_2026"
      [] y = 2027 -> "kwota_2027" [] y = 2028 -> "kwota_2028"
      [] y = 2029 -> "kwota_2029"

Given(update, field, old) ==
    IF field \in DOMAIN update THEN update[field] ELSE old

UpdatedEntry(entry, update) ==
    [entry EXCEPT
        !.kwota = [y \in Years |-> Given(update, KwotaField(y), entry.kwota[y])],
        !.priority = Given(update, "priority", @),
        !.is_obligatory = Given(update, "is_obligatory", @),
        !.status = Given(update, "status", @),
        !.uwagi = Given(update, "uwagi", @),
        !.compliance_validated = FALSE]

UpdateEntry(entry_id, update) ==
    /\ UNCHANGED departments
    /\ ops < MaxOps
    /\ ops' = ops + 1
    /\ UNCHANGED <<limits, conflicts>>
    /\ IF entry_id \notin 1..Len(entries)
       THEN /\ last' = [op |-> "update_entry", success |-> FALSE, entry_id |-> entry_id]
            /\ UNCHANGED entries
       ELSE /\ entries' = [entries EXCEPT ![entry_id] = UpdatedEntry(entries[entry_id], update)]
            /\ last' = [op |-> "update_entry", success |-> TRUE, entry_id |-> entry_id]

(* ---- _calculate_similarity, called on two rows ---- *)
CompareEntries(a, b) ==
    /\ UNCHANGED departments
    /\ last' = [op |-> "calculate_similarity", entry_a_id |-> a, entry_b_id |-> b,
                similarity |-> CalculateSimilarity(entries[a], entries[b])]
    /\ UNCHANGED <<entries, limits, conflicts, ops>>

(* ----------------- the compliance checker (compliance_agent.py) --------- *)

(* PARAGRAF_CLASSIFICATIONS, by group *)
INVESTMENT_PARAGRAFS == {6010, 6020, 6050, 6060, 6070}
CURRENT_PARAGRAFS ==
    {4010, 4110, 4120, 4170, 4210, 4260, 4270, 4300, 4360, 4390, 4400, 4410,
     4420, 4430, 4440, 4480, 4520, 4610}
SUBSIDY_PARAGRAFS == {2570, 2580}
PARAGRAF_CLASSIFICATIONS ==
    [p \in INVESTMENT_PARAGRAFS \cup CURRENT_PARAGRAFS \cup SUBSIDY_PARAGRAFS |->
        IF p \in INVESTMENT_PARAGRAFS THEN "investment"
        ELSE IF p \in CURRENT_PARAGRAFS THEN "current"
        ELSE "subsidy"]

INVESTMENT_KEYWORDS ==
    {<<"s","e","r","w","e","r">>,
     <<"s","e","r","v","e","r">>,
     <<"s","p","r","z","e_","t"," ","k","o","m","p","u","t","e","r","o","w","y">>,
     <<"h","a","r","d","w","a","r","e">>,
     <<"z","a","k","u","p"," ","s","p","r","z","e_","t","u">>,
     <<"i","n","f","r","a","s","t","r","u","k","t","u","r","a">>,
     <<"m","o","d","e","r","n","i","z","a","c","j","a">>,
     <<"b","u","d","o","w","a">>,
     <<"r","o","z","b","u","d","o","w","a">>,
     <<"u","r","z","a_","d","z","e","n","i","a"," ","s","i","e","c","i","o","w","e">>,
     <<"s","w","i","t","c","h">>,
     <<"r","o","u","t","e","r">>,
     <<"f","i","r","e","w","a","l","l">>,
     <<"m","a","c","i","e","r","z">>}

CURRENT_KEYWORDS ==
    {<<"l","i","c","e","n","c","j","a">>,
     <<"l","i","c","e","n","s","e">>,
     <<"o","p","r","o","g","r","a","m","o","w","a","n","i","e">>,
     <<"s","o","f","t","w","a","r","e">>,
     <<"s","u","b","s","k","r","y","p","c","j","a">>,
     <<"s","u","b","s","c","r","i","p","t","i","o","n">>,
     <<"s","z","k","o","l","e","n","i","e">>,
     <<"t","r","a","i","n","i","n","g">>,
     <<"u","s","l_","u","g","a">>,
     <<"s","e","r","w","i","s">>,
     <<"s","u","p","p","o","r","t">>,
     <<"u","t","r","z","y","m","a","n","i","e">>}

(* a paragraf column that is NULL (or 0): `not entry.paragraf` *)
NoParagraf == 0
(* a department_id column that is NULL *)
NoDepartment == 0

SUGGESTED_INVESTMENT_PARAGRAF == 6060
PARAGRAF_PENALTY == 20
CLASSIFICATION_PENALTY == 15
AMOUNT_PENALTY == 10
FIELD_PENALTY == 5
VALID_SCORE == 70
HIGH_AMOUNT == 50000
MULTIYEAR_AMOUNT == 1000
INVESTMENT_FROM == 6000

(* ComplianceAgent._get_entry_content *)
ComplianceContent(entry) ==
    Lower(JoinSpace(<<entry.nazwa_zadania, entry.opis_projektu,
                      entry.szczegolowe_uzasadnienie, entry.zadanie_inwestycyjne,
                      entry.uwagi>>))

(* the paragraph check looking for investment keywords in the wrong group *)
ValidateParagrafSwapped(entry) ==
    IF entry.paragraf = NoParagraf
    THEN [warnings |-> <<"missing_paragraf">>, suggested_paragraf |-> 0]
    ELSE IF entry.paragraf \notin DOMAIN PARAGRAF_CLASSIFICATIONS
    THEN [warnings |-> <<"unknown_paragraf">>, suggested_paragraf |-> 0]
    ELSE LET group == PARAGRAF_CLASSIFICATIONS[entry.paragraf]
             content == ComplianceContent(entry)
         IN  IF group = "investment" /\ ContainsAny(content, INVESTMENT_KEYWORDS)
             THEN [warnings |-> <<"investment_keyword">>,
                   suggested_paragraf |-> SUGGESTED_INVESTMENT_PARAGRAF]
             ELSE IF group = "current" /\ ContainsAny(content, CURRENT_KEYWORDS)
             THEN [warnings |-> <<"current_keyword">>, suggested_paragraf |-> 0]
             ELSE [warnings |-> <<>>, suggested_paragraf |-> 0]

(* _validate_paragraf: the loops leave at the first keyword found, so at   *)
(* most one warning of a kind; suggested_paragraf 0 is None                *)
ValidateParagraf(entry) ==
    IF entry.paragraf = NoParagraf
    THEN [warnings |-> <<"missing_paragraf">>, suggested_paragraf |-> 0]
    ELSE IF entry.paragraf \notin DOMAIN PARAGRAF_CLASSIFICATIONS
    THEN [warnings |-> <<"unknown_paragraf">>, suggested_paragraf |-> 0]
    ELSE LET group == PARAGRAF_CLASSIFICATIONS[entry.paragraf]
             content == ComplianceContent(entry)
         IN  IF group = "current" /\ ContainsAny(content, INVESTMENT_KEYWORDS)
             THEN [warnings |-> <<"investment_keyword">>,
                   suggested_paragraf |-> SUGGESTED_INVESTMENT_PARAGRAF]
             ELSE IF group = "investment" /\ ContainsAny(content, CURRENT_KEYWORDS)
             THEN [warnings |-> <<"current_keyword">>, suggested_paragraf |-> 0]
             ELSE [warnings |-> <<>>, suggested_paragraf |-> 0]

(* the text cut at its dots: "16.1.2.1" gives <<"16", "1", "2", "1">> as   *)
(* sequences of characters                                                 *)
RECURSIVE SplitDots(_, _, _)
SplitDots(s, i, segment) ==
    IF i > Len(s) THEN <<segment>>
    ELSE IF s[i] = "." THEN <<segment>> \o SplitDots(s, i + 1, <<>>)
    ELSE SplitDots(s, i + 1, Append(segment, s[i]))

Digits == {"0", "1", "2", "3", "4", "5", "6", "7", "8", "9"}
IsNumber(segment) ==
    Len(segment) > 0 /\ \A k \in 1..Len(segment) : segment[k] \in Digits

(* re.match(r'^\d+\.\d+\.\d+\.\d+\.?$', bz) *)
BzPatternMatches(bz) ==
    LET segments == SplitDots(bz, 1, <<>>)
    IN  /\ Len(segments) \in {4, 5}
        /\ \A k \in 1..4 : IsNumber(segments[k])
        /\ Len(segments) = 5 => segments[5] = <<>>

BZ_SENTINELS == {<<"n","d">>, <<"n","/","d">>, <<"n","a","n">>, <<>>}

(* _validate_classification recording a correction with its warning *)
ValidateClassificationCorrecting(entry) ==
    IF entry.paragraf = NoParagraf
    THEN [warnings |-> <<>>, auto_corrections |-> <<>>]
    ELSE IF /\ Truthy(entry.beneficjent_zadaniowy)
            /\ ~BzPatternMatches(entry.beneficjent_zadaniowy)
            /\ entry.beneficjent_zadaniowy # <<"0">>
            /\ Lower(entry.beneficjent_zadaniowy) \notin BZ_SENTINELS
    THEN [warnings |-> <<"bz_format">>,
          auto_corrections |-> <<[field |-> "beneficjent_zadaniowy"]>>]
    ELSE [warnings |-> <<>>, auto_corrections |-> <<>>]

(* _validate_classification: it fills no auto_corrections *)
ValidateClassification(entry) ==
    IF entry.paragraf = NoParagraf
    THEN [warnings |-> <<>>, auto_corrections |-> <<>>]
    ELSE IF /\ Truthy(entry.beneficjent_zadaniowy)
            /\ ~BzPatternMatches(entry.beneficjent_zadaniowy)
            /\ entry.beneficjent_zadaniowy # <<"0">>
            /\ Lower(entry.beneficjent_zadaniowy) \notin BZ_SENTINELS
    THEN [warnings |-> <<"bz_format">>, auto_corrections |-> <<>>]
    ELSE [warnings |-> <<>>, auto_corrections |-> <<>>]

RECURSIVE MaxAmount(_, _)
MaxAmount(entry, years) ==
    IF years = {} THEN 0
    ELSE LET y == CHOOSE y \in years : TRUE
         IN  Max(entry.kwota[y], MaxAmount(entry, years \ {y}))

(* _validate_amounts *)
ValidateAmounts(entry) ==
    (IF MaxAmount(entry, Years \ {FirstYear}) > Amt(HIGH_AMOUNT)
        \/ entry.kwota[FirstYear] > Amt(HIGH_AMOUNT)
     THEN <<"high_amount">> ELSE <<>>)
    \o (IF /\ entry.is_obligatory
           /\ entry.kwota[FirstYear] > 0
           /\ 2 * entry.kwota[FirstYear + 1] < entry.kwota[FirstYear]
        THEN <<"obligatory_drop">> ELSE <<>>)
    \o (IF /\ entry.paragraf # NoParagraf
           /\ entry.paragraf >= INVESTMENT_FROM
           /\ entry.kwota[FirstYear] > Amt(MULTIYEAR_AMOUNT)
           /\ \A y \in Years \ {FirstYear} : entry.kwota[y] = 0
        THEN <<"no_multiyear_plan">> ELSE <<>>)

(* _validate_required_fields *)
ValidateRequiredFields(entry) ==
    (IF ~Truthy(entry.nazwa_zadania) /\ ~Truthy(entry.opis_projektu)
     THEN <<"no_name">> ELSE <<>>)
    \o (IF entry.department_id = NoDepartment THEN <<"no_department">> ELSE <<>>)
    \o (IF /\ entry.paragraf # NoParagraf
           /\ entry.paragraf >= INVESTMENT_FROM
           /\ ~Truthy(entry.zadanie_inwestycyjne)
        THEN <<"no_investment_task">> ELSE <<>>)

(* validity that asks for more than the threshold *)
ScoreIsValidStrict(score) == score > VALID_SCORE

(* result["is_valid"] = result["compliance_score"] >= 70 *)
ScoreIsValid(score) == score >= VALID_SCORE

(* validate_entry *)
ValidateEntry(entry) ==
    LET paragraf_check == IF entry.paragraf # NoParagraf
                          THEN ValidateParagraf(entry)
                          ELSE [warnings |-> <<>>, suggested_paragraf |-> 0]
        classification_check == ValidateClassification(entry)
        amount_warnings == ValidateAmounts(entry)
        field_warnings == ValidateRequiredFields(entry)
        paragraf_corrections ==
            IF paragraf_check.suggested_paragraf # 0
            THEN <<[field |-> "paragraf", original |-> entry.paragraf,
                    corrected |-> paragraf_check.suggested_paragraf]>>
            ELSE <<>>
        score == 100
                 - (IF paragraf_check.suggested_paragraf # 0 THEN PARAGRAF_PENALTY ELSE 0)
                 - (IF Len(classification_check.auto_corrections) > 0
                    THEN CLASSIFICATION_PENALTY ELSE 0)
                 - (IF Len(amount_warnings) > 0 THEN AMOUNT_PENALTY ELSE 0)
                 - FIELD_PENALTY * Len(field_warnings)
    IN  [is_valid |-> ScoreIsValid(score),
         warnings |-> paragraf_check.warnings \o classification_check.warnings
                        \o amount_warnings \o field_warnings,
         auto_corrections |-> paragraf_corrections \o classification_check.auto_corrections,
         suggested_paragraf |-> paragraf_check.suggested_paragraf,
         compliance_score |-> Max(0, score)]

(* ---- POST /api/compliance/validate/{entry_id} ---- *)
ValidateEntryCompliance(entry_id) ==
    /\ UNCHANGED departments
    /\ last' = IF entry_id \notin 1..Len(entries)
               THEN [op |-> "validate_entry", success |-> FALSE, entry_id |-> entry_id]
               ELSE [op |-> "validate_entry", success |-> TRUE, entry_id |-> entry_id,
                     validation |-> ValidateEntry(entries[entry_id])]
    /\ UNCHANGED <<entries, limits, conflicts, ops>>

(* Rows for the compliance checker: every column it reads takes the values *)
(* that decide its branches.                                               *)
ComplianceUniverse ==
    LET T_SERWER_SWITCH == <<"s","e","r","w","e","r"," ","s","w","i","t","c","h">>
        T_LICENCJA == <<"l","i","c","e","n","c","j","a">>
        T_ZADANIE == <<"z","1">>
        T_SWITCH == <<"s","w","i","t","c","h">>
        BZ_CODE == <<"1","6",".","1",".","2",".","1">>
        BZ_CODE_DOT == <<"1","6",".","1",".","2",".","1",".">>
        BZ_SHORT == <<"1","6",".","1">>
        BZ_ND == <<"n","d">>
        BZ_ZERO == <<"0">>
    IN
    { [NewEntry(dept, par, nazwa, kwota, P_MEDIUM, oblig, NoText, NoText)
          EXCEPT !.zadanie_inwestycyjne = zadanie, !.beneficjent_zadaniowy = bz] :
        dept \in {NoDepartment, 1},
        par \in {NoParagraf, 4210, 2570, 6060, 9999},
        nazwa \in {NoText, T_SERWER_SWITCH, T_LICENCJA, T_REMONT},
        kwota \in {Kw(0, 0, 0, 0, 0), Kw(100, 0, 0, 0, 0), Kw(100, 60, 0, 0, 0),
                   Kw(2000, 0, 0, 0, 0), Kw(60000, 60000, 0, 0, 0)},
        oblig \in BOOLEAN,
        zadanie \in {NoText, T_ZADANIE, T_SWITCH},
        bz \in {NoText, BZ_CODE, BZ_CODE_DOT, BZ_SHORT, BZ_ND, BZ_ZERO} }

(* ------------------ submission and the workflow phase ------------------ *)

(* a Department row as created: no deadline, edits not locked *)
NewDepartment == [edits_locked |-> FALSE, edit_deadline |-> "none"]

HasDepartment(entry) == entry.department_id \in Departments

(* dept.edit_deadline and datetime.utcnow() > dept.edit_deadline *)
DeadlinePassed(dept) == dept.edit_deadline = "past"

(* ---- PUT /api/departments/{dept_code}/lock ---- *)
LockDepartmentEdits(dept_id, locked) ==
    /\ departments' = [departments EXCEPT ![dept_id].edits_locked = locked]
    /\ last' = [op |-> "lock_department_edits", department |-> dept_id]
    /\ UNCHANGED <<entries, limits, conflicts, ops>>

(* ---- PUT /api/departments/{dept_code}/deadline ---- *)
(* the deadline given lies after or before the clock of the server         *)
SetDepartmentDeadline(dept_id, deadline) ==
    /\ departments' = [departments EXCEPT ![dept_id].edit_deadline = deadline]
    /\ last' = [op |-> "set_department_deadline", department |-> dept_id]
    /\ UNCHANGED <<entries, limits, conflicts, ops>>

(* the clock of the server passes the deadline of a department *)
DeadlinePasses(dept_id) ==
    /\ departments[dept_id].edit_deadline = "future"
    /\ departments' = [departments EXCEPT ![dept_id].edit_deadline = "past"]
    /\ UNCHANGED <<entries, limits, conflicts, last, ops>>

SCORE_GATE == 50

(* the missing-field errors without the check of the amounts *)
SubmitErrorsWithoutAmounts(entry) ==
    (IF ~Truthy(entry.nazwa_zadania) /\ ~Truthy(entry.opis_projektu)
     THEN <<"no_name">> ELSE <<>>)
    \o (IF entry.paragraf = NoParagraf THEN <<"no_paragraf">> ELSE <<>>)

(* the missing-field errors submit_entry_with_validation collects *)
SubmitErrors(entry) ==
    (IF ~Truthy(entry.nazwa_zadania) /\ ~Truthy(entry.opis_projektu)
     THEN <<"no_name">> ELSE <<>>)
    \o (IF entry.paragraf = NoParagraf THEN <<"no_paragraf">> ELSE <<>>)
    \o (IF /\ entry.kwota[2025] = 0 /\ entry.kwota[2026] = 0 /\ entry.kwota[2027] = 0
        THEN <<"no_amounts">> ELSE <<>>)

(* the HTTP status submit_entry_with_validation answers for a row *)
SubmitStatusCode(entry) ==
    IF HasDepartment(entry) /\ departments[entry.department_id].edits_locked THEN 403
    ELSE IF HasDepartment(entry) /\ DeadlinePassed(departments[entry.department_id]) THEN 403
    ELSE IF ValidateEntry(entry).compliance_score < SCORE_GATE THEN 400
    ELSE IF Len(SubmitErrors(entry)) > 0 THEN 400
    ELSE 200

(* ---- POST /api/entries/{entry_id}/submit ---- *)
SubmitEntryWithValidation(entry_id) ==
    /\ ops < MaxOps
    /\ ops' = ops + 1
    /\ UNCHANGED <<limits, conflicts, departments>>
    /\ IF entry_id \notin 1..Len(entries)
       THEN /\ last' = [op |-> "submit", entry_id |-> entry_id, status_code |-> 404]
            /\ UNCHANGED entries
       ELSE LET code == SubmitStatusCode(entries[entry_id])
            IN  /\ last' = [op |-> "submit", entry_id |-> entry_id, status_code |-> code]
                /\ entries' =
                     IF code = 200
                     THEN [entries EXCEPT ![entry_id].status = "submitted",
                                          ![entry_id].compliance_validated = TRUE]
                     ELSE entries

(* ---- POST /api/entries/{entry_id}/approve ---- *)
ApproveEntry(entry_id) ==
    /\ ops < MaxOps
    /\ ops' = ops + 1
    /\ UNCHANGED <<limits, conflicts, departments>>
    /\ IF entry_id \notin 1..Len(entries)
       THEN /\ last' = [op |-> "approve", entry_id |-> entry_id, status_code |-> 404]
            /\ UNCHANGED entries
       ELSE /\ last' = [op |-> "approve", entry_id |-> entry_id, status_code |-> 200]
            /\ entries' = [entries EXCEPT ![entry_id].status = "approved"]

RejectRemark(reason) == "[ODRZUCONO: " \o reason \o "]"

(* ---- POST /api/entries/{entry_id}/reject ---- *)
RejectEntry(entry_id, reason) ==
    /\ ops < MaxOps
    /\ ops' = ops + 1
    /\ UNCHANGED <<limits, conflicts, departments>>
    /\ IF entry_id \notin 1..Len(entries)
       THEN /\ last' = [op |-> "reject", entry_id |-> entry_id, status_code |-> 404]
            /\ UNCHANGED entries
       ELSE /\ last' = [op |-> "reject", entry_id |-> entry_id, status_code |-> 200]
            /\ entries' = [entries EXCEPT
                             ![entry_id].status = "rejected",
                             ![entry_id].uwagi =
                                 AppendRemark(entries[entry_id].uwagi, RejectRemark(reason))]

(* the row after submit-all has looked at it *)
SubmittedInBulk(entry) ==
    IF /\ ValidateEntry(entry).compliance_score >= SCORE_GATE
       /\ (Truthy(entry.nazwa_zadania) \/ Truthy(entry.opis_projektu))
       /\ entry.paragraf # NoParagraf
    THEN [entry EXCEPT !.status = "submitted", !.compliance_validated = TRUE]
    ELSE entry

(* ---- POST /api/entries/submit-all ---- *)
SubmitAllDepartmentEntries(dept_id) ==
    /\ ops < MaxOps
    /\ ops' = ops + 1
    /\ UNCHANGED <<limits, conflicts, departments>>
    /\ IF dept_id \notin Departments
       THEN /\ last' = [op |-> "submit_all", department |-> dept_id, status_code |-> 404]
            /\ UNCHANGED entries
       ELSE IF departments[dept_id].edits_locked \/ DeadlinePassed(departments[dept_id])
       THEN /\ last' = [op |-> "submit_all", department |-> dept_id, status_code |-> 403]
            /\ UNCHANGED entries
       ELSE /\ last' = [op |-> "submit_all", department |-> dept_id, status_code |-> 200]
            /\ entries' = [i \in 1..Len(entries) |->
                              IF /\ entries[i].department_id = dept_id
                                 /\ entries[i].status = "draft"
                              THEN SubmittedInBulk(entries[i])
                              ELSE entries[i]]

(* ---- OrchestratorAgent.initialize_workflow ---- *)

(* limit.total_limit if limit else 0 *)
GlobalLimitOrZero(ls, year) ==
    IF GlobalLimitIndex(ls, year) # 0 THEN ls[GlobalLimitIndex(ls, year)].total_limit ELSE 0

(* all(e.status in [SUBMITTED, APPROVED] for e in entries) over the rows   *)
(* of the department; true of a department with no rows                    *)
DepartmentCompleted(es, dept_id) ==
    \A i \in 1..Len(es) :
        es[i].department_id = dept_id => es[i].status \in {"submitted", "approved"}

(* the branches in another order: the limit before the departments *)
WorkflowPhaseLimitFirst(pending, completed, total, global_limit) ==
    IF total > global_limit THEN "cutting"
    ELSE IF Cardinality(pending) > Cardinality(completed) THEN "collection"
    ELSE IF Cardinality(pending) = 0 THEN "finalization"
    ELSE "approval"

WorkflowPhase(pending, completed, total, global_limit) ==
    IF Cardinality(pending) > Cardinality(completed) THEN "collection"
    ELSE IF total > global_limit THEN "cutting"
    ELSE IF Cardinality(pending) = 0 THEN "finalization"
    ELSE "approval"

InitializeWorkflow(es, ls, year) ==
    LET global_limit == GlobalLimitOrZero(ls, year)
        total == SumKwota(es, year)
        completed == {d \in Departments : DepartmentCompleted(es, d)}
        pending == Departments \ completed
    IN  [current_phase |-> WorkflowPhase(pending, completed, total, global_limit),
         year |-> year,
         global_limit |-> global_limit,
         total_requests |-> total,
         variance |-> total - global_limit,
         departments_completed |-> completed,
         departments_pending |-> pending]

(* ---- GET /api/orchestrator/analyze: the workflow state it reports ---- *)
OrchestratorAnalyze(year) ==
    /\ last' = [op |-> "orchestrator_analyze",
                state |-> InitializeWorkflow(entries, limits, year)]
    /\ UNCHANGED <<entries, limits, conflicts, ops, departments>>

(* Rows for submission: one that passes every gate, and one failing each   *)
(* of them                                                                 *)
SubmitUniverse ==
    { NewEntry(1, 4210, T_LAN_A, Kw(100, 0, 0, 0, 50), P_LOW, FALSE, NoText, NoText),
      NewEntry(2, 4300, T_REMONT, Kw(0, 60, 0, 0, 0), P_LOW, FALSE, NoText, NoText),
      NewEntry(1, 4210, NoText, Kw(100, 0, 0, 0, 0), P_LOW, FALSE, NoText, NoText),
      NewEntry(2, NoParagraf, T_DORA, Kw(30, 0, 0, 0, 0), P_LOW, FALSE, NoText, NoText),
      NewEntry(1, 4210, T_DORA, Kw(0, 0, 0, 0, 50), P_LOW, FALSE, NoText, NoText),
      NewEntry(NoDepartment, 4210, T_DORA, Kw(100, 0, 0, 0, 0), P_LOW, FALSE, NoText, NoText) }

(* Rows for the workflow: two departments, amounts with and without a     *)
(* 2025 part, in the states a row passes through                           *)
WorkflowUniverse ==
    { [e EXCEPT !.status = s] :
        e \in { NewEntry(1, 4210, T_LAN_A, Kw(100, 0, 0, 0, 50), P_LOW, FALSE, NoText, NoText),
                NewEntry(2, 4300, T_REMONT, Kw(0, 60, 0, 0, 0), P_LOW, FALSE, NoText, NoText),
                NewEntry(2, 4210, T_DORA, Kw(30, 0, 0, 0, 0), P_LOW, FALSE, NoText, NoText) },
        s \in {"draft", "submitted", "approved"} }

(* --------------------------- ForecasterAgent --------------------------- *)

CONFIDENCE_FLOOR_PCT == 50
CONFIDENCE_DECAY_PCT == 15

(* the confidence without the floor *)
ForecastConfidenceUnbounded(offset) == 100 - offset * CONFIDENCE_DECAY_PCT

(* max(0.5, 1 - (offset * 0.15)), in hundredths *)
ForecastConfidence(offset) ==
    Max(CONFIDENCE_FLOOR_PCT, 100 - offset * CONFIDENCE_DECAY_PCT)

(* ---- GET /api/forecaster/forecast ---- *)
(* Of each forecast the year and the confidence are kept; a base year with *)
(* no kwota column fails in _get_year_data.                                *)
ForecastBudget(base_year, forecast_years) ==
    /\ last' = IF base_year \notin Years
               THEN [op |-> "forecast_budget", success |-> FALSE, base_year |-> base_year]
               ELSE [op |-> "forecast_budget", success |-> TRUE, base_year |-> base_year,
                     forecasts |-> [offset \in 1..forecast_years |->
                                       [year |-> base_year + offset,
                                        confidence |-> ForecastConfidence(offset)]]]
    /\ UNCHANGED <<entries, limits, conflicts, ops, departments>>

(* ---- ForecasterAgent.detect_anomalies ---- *)

Z_OUTLIER == 3
Z_HIGH == 4
UNJUSTIFIED_AMOUNT == 10000
ANOMALY_INVESTMENT_FROM == 600
ANOMALY_INVESTMENT_BELOW == 700

ANOMALY_INVESTMENT_KEYWORDS ==
    {<<"z","a","k","u","p">>, <<"b","u","d","o","w","a">>,
     <<"i","n","w","e","s","t","y","c","j","a">>, <<"s","p","r","z","e_","t">>}

(* the ids of the rows with a positive amount in the year, in id order *)
PositiveRows(es, year) == SelectSeq([i \in 1..Len(es) |-> i], LAMBDA i : Kwota(es[i], year) > 0)

RECURSIVE SumOver(_, _)
SumOver(f, ids) ==
    IF Len(ids) = 0 THEN 0 ELSE f[Head(ids)] + SumOver(f, Tail(ids))

RECURSIVE GCDOver(_, _)
GCDOver(f, ids) ==
    IF Len(ids) = 0 THEN 0 ELSE GCD(f[Head(ids)], GCDOver(f, Tail(ids)))

(* The z-scores, exactly. A common factor of the amounts leaves every      *)
(* z-score unchanged, so the amounts are taken in units of their greatest  *)
(* common divisor x. With n amounts of sum S, deviation(i) is n * (x_i -   *)
(* mean) and spread is n^3 * variance, hence for a threshold t             *)
(*     |z_i| > t  iff  n * deviation(i)^2 > t^2 * spread                   *)
(* when the variance is positive; a zero variance makes every z-score 0.   *)
ZScores(es, year) ==
    LET ids == PositiveRows(es, year)
        n == Len(ids)
        unit == GCDOver([i \in 1..Len(es) |-> Kwota(es[i], year)], ids)
        x == [i \in 1..Len(es) |-> Kwota(es[i], year) \div unit]
        S == SumOver(x, ids)
        deviation == [i \in 1..Len(es) |-> n * x[i] - S]
        spread == SumOver([i \in 1..Len(es) |-> deviation[i] * deviation[i]], ids)
    IN  [n |-> n, deviation |-> deviation, spread |-> spread]

(* the comparison with the threshold left unsquared *)
IsOutlierUnsquared(z, i) ==
    z.n * z.deviation[i] * z.deviation[i] > Z_OUTLIER * z.spread

(* abs(z_score) > 3 *)
IsOutlier(z, i) ==
    z.n * z.deviation[i] * z.deviation[i] > Z_OUTLIER * Z_OUTLIER * z.spread

(* "high" if z_score > 4 else "medium" *)
OutlierSeverity(z, i) ==
    IF /\ z.deviation[i] > 0
       /\ z.n * z.deviation[i] * z.deviation[i] > Z_HIGH * Z_HIGH * z.spread
    THEN "high" ELSE "medium"

(* (entry.nazwa_zadania or entry.opis_projektu or "").lower() *)
AnomalyText(entry) ==
    Lower(IF Truthy(entry.nazwa_zadania) THEN entry.nazwa_zadania ELSE entry.opis_projektu)

(* the anomalies of one row, in the order the loop appends them *)
AnomaliesOf(es, year, z, i) ==
    (IF IsOutlier(z, i)
     THEN <<[type |-> "outlier", severity |-> OutlierSeverity(z, i), entry_id |-> i]>>
     ELSE <<>>)
    \o (IF Kwota(es[i], year) > Amt(UNJUSTIFIED_AMOUNT) /\ ~Truthy(es[i].szczegolowe_uzasadnienie)
        THEN <<[type |-> "missing_justification", severity |-> "medium", entry_id |-> i]>>
        ELSE <<>>)
    \o (IF /\ es[i].paragraf # NoParagraf
           /\ es[i].paragraf >= ANOMALY_INVESTMENT_FROM
           /\ es[i].paragraf < ANOMALY_INVESTMENT_BELOW
           /\ ~ContainsAny(AnomalyText(es[i]), ANOMALY_INVESTMENT_KEYWORDS)
        THEN <<[type |-> "classification_mismatch", severity |-> "low", entry_id |-> i]>>
        ELSE <<>>)

RECURSIVE AnomaliesFrom(_, _, _, _)
AnomaliesFrom(es, year, z, ids) ==
    IF Len(ids) = 0 THEN <<>>
    ELSE AnomaliesOf(es, year, z, Head(ids)) \o AnomaliesFrom(es, year, z, Tail(ids))

DetectAnomalies(es, year) ==
    AnomaliesFrom(es, year, ZScores(es, year), PositiveRows(es, year))

(* ---- GET /api/forecaster/anomalies ---- *)
ForecasterAnomalies(year) ==
    /\ last' = [op |-> "detect_anomalies", year |-> year,
                anomalies |-> DetectAnomalies(entries, year)]
    /\ UNCHANGED <<entries, limits, conflicts, ops, departments>>

(* Stores for the anomaly detection: rows with no amount in 2025, then     *)
(* rows of 10, then rows of 1000 (thousand PLN), one of the latter in an   *)
(* investment paragraph of the range the detection looks at               *)
AnomalyRow(amount, paragraf) ==
    NewEntry(1, paragraf, T_DORA, Kw(amount, 20, 0, 0, 0), P_LOW, FALSE, NoText, NoText)

AnomalyStores ==
    { [i \in 1..(zero + small + large) |->
          IF i <= zero THEN AnomalyRow(0, 4210)
          ELSE IF i <= zero + small THEN AnomalyRow(10, 4210)
          ELSE AnomalyRow(1000, paragraf)] :
        zero \in 0..1, small \in 0..MaxAnomalyEntries, large \in 0..MaxAnomalyEntries,
        paragraf \in {4210, 605} }

(* ---- ForecasterAgent.optimize_multi_year_allocation ---- *)

(* rows that are obligatory by flag or by priority; the others are         *)
(* deferrable                                                              *)
NonDeferrableRows(es) ==
    SelectSeq([i \in 1..Len(es) |-> i],
              LAMBDA i : es[i].is_obligatory \/ es[i].priority = OBOWIAZKOWY)
DeferrableRows(es) ==
    SelectSeq([i \in 1..Len(es) |-> i],
              LAMBDA i : ~(es[i].is_obligatory \/ es[i].priority = OBOWIAZKOWY))

YearAllocation(es, year, limit) ==
    LET amounts == [i \in 1..Len(es) |-> Kwota(es[i], year)]
        year_non_def == SumOver(amounts, NonDeferrableRows(es))
        remaining == limit - year_non_def
        year_def == SumOver(amounts, DeferrableRows(es))
    IN  [limit |-> limit,
         non_deferrable |-> year_non_def,
         deferrable_requested |-> year_def,
         deferrable_allocated |-> Min(year_def, Max(0, remaining)),
         total_allocated |-> year_non_def + Min(year_def, Max(0, remaining)),
         gap |-> Max(0, year_non_def + year_def - limit),
         surplus |-> Max(0, remaining - year_def)]

(* sorted(total_limit.keys()) *)
RECURSIVE SortedYears(_)
SortedYears(S) ==
    IF S = {} THEN <<>>
    ELSE LET first == CHOOSE y \in S : \A z \in S : y <= z
         IN  <<first>> \o SortedYears(S \ {first})

(* the whole gap shifted, whatever the surplus *)
ShiftAmountWholeGap(gap, surplus) == gap

ShiftAmount(gap, surplus) == Min(gap, surplus)

(* the loop over years[:-1], from position i on *)
RECURSIVE SuggestedShifts(_, _, _)
SuggestedShifts(allocation, years, i) ==
    IF i >= Len(years) THEN <<>>
    ELSE LET year == years[i]
             next_year == years[i + 1]
             rest == SuggestedShifts(allocation, years, i + 1)
         IN  IF allocation[year].gap > 0 /\ allocation[next_year].surplus > 0
             THEN <<[from_year |-> year, to_year |-> next_year,
                     amount |-> ShiftAmount(allocation[year].gap,
                                            allocation[next_year].surplus)]>> \o rest
             ELSE rest

OptimizeMultiYearAllocation(es, total_limit) ==
    LET allocation == [year \in DOMAIN total_limit |->
                          YearAllocation(es, year, total_limit[year])]
    IN  [allocation |-> allocation,
         suggested_shifts |-> SuggestedShifts(allocation, SortedYears(DOMAIN total_limit), 1)]

(* the function called on the store with a dictionary of yearly limits *)
ForecasterOptimize(total_limit) ==
    /\ last' = [op |-> "optimize_multi_year_allocation", total_limit |-> total_limit,
                result |-> OptimizeMultiYearAllocation(entries, total_limit)]
    /\ UNCHANGED <<entries, limits, conflicts, ops, departments>>

(* dictionaries of limits: one year, consecutive years, and years with a   *)
(* year left out                                                           *)
AllocationYearSets == {{2025}, {2025, 2026}, {2025, 2026, 2027}, {2025, 2027}}
AllocationLimits == {Amt(40), Amt(120), Amt(300)}
TotalLimits == UNION {[ys -> AllocationLimits] : ys \in AllocationYearSets}

(* ---------------------------- IngestionAgent ---------------------------- *)

INGEST_LIMIT_YEAR == 2025
INGEST_LIMIT == 100000
INGEST_HIGH_AMOUNT == 10000
INGEST_MEDIUM_AMOUNT == 1000

INGEST_OBLIGATORY_KEYWORDS ==
    {<<"o","b","o","w","i","a_","z","k","o","w","e">>,
     <<"o","b","l","i","g","a","t","o","r","y","j","n","e">>,
     <<"p","r","a","w","n","e">>,
     <<"u","s","t","a","w","a">>,
     <<"c","y","b","e","r","b","e","z","p","i","e","c","z","e","n_","s","t","w","o">>,
     <<"a","u","d","i","t">>,
     <<"a","u","d","y","t">>,
     <<"k","o","n","t","r","o","l","a">>,
     <<"e","i","d","a","s">>,
     <<"r","o","z","p","o","r","z","a_","d","z","e","n","i","e">>}

INGEST_DISCRETIONARY_KEYWORDS ==
    {<<"p","l","a","n","o","w","a","n","e">>,
     <<"o","p","c","j","o","n","a","l","n","e">>,
     <<"n","o","w","e">>,
     <<"r","o","z","w","o_","j">>}

(* setup_global_limit: an existing record keeps its current_total and its  *)
(* variance; a new one gets the column defaults                            *)
SetupGlobalLimit(ls, year, limit) ==
    IF GlobalLimitIndex(ls, year) # 0
    THEN [ls EXCEPT ![GlobalLimitIndex(ls, year)].total_limit = limit]
    ELSE Append(ls, [year |-> year, total_limit |-> limit,
                     current_total |-> 0, variance |-> 0])

(* _update_totals *)
UpdateTotals(ls, es) ==
    LET total == SumKwota(es, INGEST_LIMIT_YEAR)
        i == GlobalLimitIndex(ls, INGEST_LIMIT_YEAR)
    IN  IF i # 0
        THEN [ls EXCEPT ![i].current_total = total,
                        ![i].variance = total - ls[i].total_limit]
        ELSE ls

(* _determine_priority, on the row of the sheet *)
DeterminePriority(row) ==
    LET combined_text == Lower(JoinSpace(<<row.nazwa_zadania, row.opis_projektu,
                                           row.szczegolowe_uzasadnienie, row.etap_dzialan>>))
    IN  IF ContainsAny(combined_text, INGEST_OBLIGATORY_KEYWORDS) THEN P_OBLIGATORY
        ELSE IF ContainsAny(combined_text, INGEST_DISCRETIONARY_KEYWORDS) THEN P_DISCRETIONARY
        ELSE IF row.kwota[2025] > Amt(INGEST_HIGH_AMOUNT) THEN P_HIGH
        ELSE IF row.kwota[2025] > Amt(INGEST_MEDIUM_AMOUNT) THEN P_MEDIUM
        ELSE P_LOW

(* _process_row: no entry for a row with no amount in 2025..2027 and no    *)
(* name and no description                                                 *)
RowIsSkipped(row) ==
    /\ row.kwota[2025] = 0 /\ row.kwota[2026] = 0 /\ row.kwota[2027] = 0
    /\ ~Truthy(row.nazwa_zadania) /\ ~Truthy(row.opis_projektu)

ProcessRow(row) ==
    [row EXCEPT !.priority = DeterminePriority(row),
                !.is_obligatory = (DeterminePriority(row) = P_OBLIGATORY),
                !.status = "draft",
                !.compliance_validated = FALSE]

RECURSIVE ProcessRows(_)
ProcessRows(rows) ==
    IF Len(rows) = 0 THEN <<>>
    ELSE (IF RowIsSkipped(Head(rows)) THEN <<>> ELSE <<ProcessRow(Head(rows))>>)
         \o ProcessRows(Tail(rows))

(* ---- POST /api/ingest/excel ---- *)
(* readable: pd.read_excel reads the file; if it raises, ingest_excel      *)
(* rolls back and answers success false, after setup_global_limit has      *)
(* committed                                                               *)
IngestExcelFile(rows, readable) ==
    /\ ops < MaxOps
    /\ Len(entries) + Len(rows) <= MaxEntries
    /\ ops' = ops + 1
    /\ UNCHANGED <<conflicts, departments>>
    /\ LET prepared == SetupGlobalLimit(limits, INGEST_LIMIT_YEAR, Amt(INGEST_LIMIT))
           created == ProcessRows(rows)
       IN  IF readable
           THEN /\ entries' = entries \o created
                /\ limits' = UpdateTotals(prepared, entries \o created)
                /\ last' = [op |-> "ingest_excel", success |-> TRUE,
                            entries_processed |-> Len(rows),
                            entries_created |-> Len(created)]
           ELSE /\ entries' = entries
                /\ limits' = prepared
                /\ last' = [op |-> "ingest_excel", success |-> FALSE,
                            entries_processed |-> 0, entries_created |-> 0]

(* rows of a sheet, as read: the priority columns are set by _process_row *)
SheetRows ==
    { NewEntry(1, 4210, T_LAN_A, Kw(100, 0, 0, 0, 50), NoText, FALSE, NoText, NoText),
      NewEntry(2, 4300, <<"a","u","d","y","t"," ","i","t">>, Kw(2000, 0, 0, 0, 0), NoText, FALSE, NoText, NoText),
      NewEntry(NoDepartment, 4300, T_REMONT, Kw(0, 60, 0, 0, 0), NoText, FALSE, PLANOWANE, NoText),
      NewEntry(1, NoParagraf, NoText, Kw(0, 0, 0, 10, 0), NoText, FALSE, NoText, NoText) }

Sheets == UNION {[1..n -> SheetRows] : n \in 0..MaxEntries}

(* --------------------------- specifications ---------------------------- *)

(* inputs of the requests *)
LimitValues == {Amt(80), Amt(120)}
Targets == {None, Some(Amt(20)), Some(Amt(200))}
ApplyActions == {"defer", "reduce", "keep"}
NewAmounts == {None, Some(Amt(70)), Some(0 - Amt(10))}
ApplyYears == {FirstYear, LastYear, LastYear + 1}
LimitYears == {FirstYear, FirstYear + 1}
DetectYears == {FirstYear, FirstYear + 1}
Resolutions == {"consolidate", "keep_both"}

EntryIds == 1..(Len(entries) + 1)        \* the last one is no row
ConflictIds == 1..(Len(conflicts) + 1)   \* the last one is no row

(* resolution and keep_entry_id of a resolve request; keep_both reads no   *)
(* keep_entry_id                                                           *)
ResolveRequests ==
    {<<"keep_both", None>>}
        \cup {<<r, keep>> : r \in Resolutions \ {"keep_both"},
                            keep \in {None} \cup {Some(e) : e \in EntryIds}}

(* the store after construction: empty tables *)
InitEmpty ==
    /\ entries = <<>>
    /\ limits = <<>>
    /\ conflicts = <<>>
    /\ last = [op |-> "none"]
    /\ ops = 0
    /\ departments = [d \in Departments |-> NewDepartment]

(* a store holding up to MaxEntries rows of EntryUniverse *)
InitStore ==
    /\ entries \in UNION {[1..n -> EntryUniverse] : n \in 0..MaxEntries}
    /\ limits = <<>>
    /\ conflicts = <<>>
    /\ last = [op |-> "none"]
    /\ ops = 0
    /\ departments = [d \in Departments |-> NewDepartment]

(* a store of up to MaxConflictEntries rows, for the requests on conflicts *)
InitConflictStore ==
    /\ entries \in UNION {[1..n -> EntryUniverse] : n \in 0..MaxConflictEntries}
    /\ limits = <<>>
    /\ conflicts = <<>>
    /\ last = [op |-> "none"]
    /\ ops = 0
    /\ departments = [d \in Departments |-> NewDepartment]

Next ==
    \/ \E body \in CreateInputs : CreateEntry(body)
    \/ \E id \in EntryIds, update \in UpdateInputs : UpdateEntry(id, update)
    \/ \E id \in EntryIds, action \in ApplyActions, amount \in NewAmounts, year \in ApplyYears :
          ApplySuggestion(id, action, amount, year)
    \/ \E year \in DetectYears : DetectConflicts(year)
    \/ \E c \in ConflictIds, request \in ResolveRequests :
          ResolveConflict(c, request[1], request[2])

Spec == InitEmpty /\ [][Next]_vars

NextOptimizer ==
    \/ \E year \in LimitYears, limit \in LimitValues : SetGlobalLimit(year, limit)
    \/ \E target \in Targets, year \in LimitYears : SuggestCuts(target, year)
    \/ \E id \in EntryIds, action \in ApplyActions, amount \in NewAmounts, year \in ApplyYears :
          ApplySuggestion(id, action, amount, year)

SpecOptimizer == InitStore /\ [][NextOptimizer]_vars

(* the requests that decide what suggest-cuts answers, on a given store *)
NextCuts ==
    \/ \E year \in LimitYears, limit \in LimitValues : SetGlobalLimit(year, limit)
    \/ \E target \in Targets, year \in LimitYears : SuggestCuts(target, year)

SpecCuts == InitStore /\ [][NextCuts]_vars

NextConflicts ==
    \/ \E year \in DetectYears : DetectConflicts(year)
    \/ \E c \in ConflictIds, request \in ResolveRequests :
          ResolveConflict(c, request[1], request[2])

SpecConflicts == InitConflictStore /\ [][NextConflicts]_vars

NextSimilarity ==
    \E a \in 1..Len(entries), b \in 1..Len(entries) : CompareEntries(a, b)

SpecSimilarity == InitStore /\ [][NextSimilarity]_vars

(* a store holding one row of ComplianceUniverse *)
InitCompliance ==
    /\ entries \in {<<e>> : e \in ComplianceUniverse}
    /\ limits = <<>>
    /\ conflicts = <<>>
    /\ last = [op |-> "none"]
    /\ ops = 0
    /\ departments = [d \in Departments |-> NewDepartment]

NextCompliance ==
    \E id \in EntryIds : ValidateEntryCompliance(id)

SpecCompliance == InitCompliance /\ [][NextCompliance]_vars

DeadlineInputs == {"future", "past"}
RejectReasons == {""}

(* a store holding one row of SubmitUniverse, two departments *)
InitSubmit ==
    /\ entries \in {<<e>> : e \in SubmitUniverse}
    /\ limits = <<>>
    /\ conflicts = <<>>
    /\ last = [op |-> "none"]
    /\ ops = 0
    /\ departments = [d \in Departments |-> NewDepartment]

NextSubmit ==
    \/ \E id \in EntryIds : SubmitEntryWithValidation(id)
    \/ \E d \in Departments, locked \in BOOLEAN : LockDepartmentEdits(d, locked)
    \/ \E d \in Departments, deadline \in DeadlineInputs : SetDepartmentDeadline(d, deadline)
    \/ \E d \in Departments : DeadlinePasses(d)

SpecSubmit == InitSubmit /\ [][NextSubmit]_vars

(* a store holding up to MaxEntries rows of WorkflowUniverse *)
InitWorkflow ==
    /\ entries \in UNION {[1..n -> WorkflowUniverse] : n \in 0..MaxEntries}
    /\ limits = <<>>
    /\ conflicts = <<>>
    /\ last = [op |-> "none"]
    /\ ops = 0
    /\ departments = [d \in Departments |-> NewDepartment]

(* the requests that decide what the orchestrator reports, on a given store *)
NextPhase ==
    \/ \E year \in LimitYears, limit \in LimitValues : SetGlobalLimit(year, limit)
    \/ \E year \in LimitYears : OrchestratorAnalyze(year)

SpecPhase == InitWorkflow /\ [][NextPhase]_vars

NextWorkflow ==
    \/ \E id \in EntryIds : SubmitEntryWithValidation(id)
    \/ \E d \in Departments : SubmitAllDepartmentEntries(d)
    \/ \E id \in EntryIds : ApproveEntry(id)
    \/ \E id \in EntryIds, reason \in RejectReasons : RejectEntry(id, reason)
    \/ \E id \in EntryIds, action \in ApplyActions : ApplySuggestion(id, action, None, FirstYear)
    \/ \E year \in LimitYears, limit \in LimitValues : SetGlobalLimit(year, limit)
    \/ \E year \in LimitYears : OrchestratorAnalyze(year)

SpecWorkflow == InitWorkflow /\ [][NextWorkflow]_vars

NextForecast ==
    \E base_year \in {FirstYear, LastYear, LastYear + 1}, forecast_years \in 0..MaxForecastYears :
        ForecastBudget(base_year, forecast_years)

SpecForecast == InitStore /\ [][NextForecast]_vars

(* a store of up to MaxAnomalyEntries rows of AnomalyStores *)
InitAnomalies ==
    /\ entries \in {es \in AnomalyStores : Len(es) <= MaxAnomalyEntries}
    /\ limits = <<>>
    /\ conflicts = <<>>
    /\ last = [op |-> "none"]
    /\ ops = 0
    /\ departments = [d \in Departments |-> NewDepartment]

NextAnomalies ==
    \E year \in {FirstYear, FirstYear + 1} : ForecasterAnomalies(year)

SpecAnomalies == InitAnomalies /\ [][NextAnomalies]_vars

NextLimits ==
    \/ \E year \in LimitYears, limit \in LimitValues : SetGlobalLimit(year, limit)
    \/ \E rows \in Sheets, readable \in BOOLEAN : IngestExcelFile(rows, readable)

SpecLimits == InitEmpty /\ [][NextLimits]_vars

(* the requests that can name a missing row, on a given store *)
NextErrors ==
    \/ \E year \in DetectYears : DetectConflicts(year)
    \/ \E c \in ConflictIds, request \in ResolveRequests :
          ResolveConflict(c, request[1], request[2])
    \/ \E id \in EntryIds, action \in {"defer", "reduce"} :
          ApplySuggestion(id, action, Some(Amt(70)), FirstYear)

SpecErrors == InitStore /\ [][NextErrors]_vars

NextAllocation ==
    \E total_limit \in TotalLimits : ForecasterOptimize(total_limit)

SpecAllocation == InitStore /\ [][NextAllocation]_vars

(* a store on which detect_conflicts has run for 2025 *)
InitDetectedStore ==
    /\ entries \in UNION {[1..n -> EntryUniverse] : n \in 0..MaxConflictEntries}
    /\ limits = <<>>
    /\ conflicts = DetectLoop(entries, EvaluatedPairs(entries, FirstYear), 1, FirstYear,
                              <<>>, <<>>).saved
    /\ last = [op |-> "none"]
    /\ ops = 0
    /\ departments = [d \in Departments |-> NewDepartment]

NextResolve ==
    \E c \in ConflictIds, request \in ResolveRequests :
        ResolveConflict(c, request[1], request[2])

SpecResolve == InitDetectedStore /\ [][NextResolve]_vars

(* the two ways rows come into the store *)
NextStore ==
    \/ \E body \in CreateInputs : CreateEntry(body)
    \/ \E rows \in Sheets, readable \in BOOLEAN : IngestExcelFile(rows, readable)

SpecStore == InitEmpty /\ [][NextStore]_vars

(* ------------------------------ properties ------------------------------ *)

(* the entries a cut may touch in a year: not obligatory, a positive amount *)
EligibleIds(es, year) ==
    {i \in 1..Len(es) : ~es[i].is_obligatory /\ es[i].kwota[year] > 0}

RECURSIVE SumAmounts(_, _, _)
SumAmounts(es, ids, year) ==
    IF ids = {} THEN 0
    ELSE LET i == CHOOSE i \in ids : TRUE
         IN  es[i].kwota[year] + SumAmounts(es, ids \ {i}, year)

SuggestedIds == {last.suggestions[k].entry_id : k \in 1..Len(last.suggestions)}

(* C1: no suggestion returned by suggest_cuts refers to an obligatory      *)
(* entry, and the savings of the returned suggestions sum to no more than  *)
(* the year's amounts of the eligible entries.                             *)
C1_SuggestionsSpareObligatory ==
    last.op = "suggest_cuts" =>
        /\ \A k \in 1..Len(last.suggestions) :
              /\ last.suggestions[k].entry_id \in 1..Len(entries)
              /\ ~entries[last.suggestions[k].entry_id].is_obligatory
        /\ SumSavings10(last.suggestions)
              <= 10 * SumAmounts(entries, EligibleIds(entries, last.year), last.year)

(* suggestions were returned for a store that holds an obligatory entry    *)
(* with an amount in the year                                              *)
C1_Witness ==
    /\ last.op = "suggest_cuts"
    /\ Len(last.suggestions) >= 1
    /\ \E i \in 1..Len(entries) :
          entries[i].is_obligatory /\ entries[i].kwota[last.year] > 0

(* what cutting every entry of ids would save: the whole amount of a       *)
(* deferrable one, the reduction rate's share of any other                 *)
RECURSIVE FullSavings10(_, _, _)
FullSavings10(es, ids, year) ==
    IF ids = {} THEN 0
    ELSE LET i == CHOOSE i \in ids : TRUE
         IN  Suggestion(es, i, year).savings10 + FullSavings10(es, ids \ {i}, year)

OverLimitWithEligible ==
    /\ last.op = "suggest_cuts"
    /\ last.over_limit
    /\ EligibleIds(entries, last.year) # {}

(* C2, as stated: whenever the year's total exceeds the limit and an       *)
(* eligible entry exists, the returned savings reach the target            *)
(* (can_meet_target is true).                                              *)
C2_TargetAlwaysMet ==
    OverLimitWithEligible =>
        /\ last.can_meet_target
        /\ last.achievable_reduction10 >= 10 * last.target_reduction

(* C2, amended: when the year's total exceeds the limit and an eligible    *)
(* entry exists, the returned savings reach the target if cutting every    *)
(* eligible entry would reach it; otherwise every eligible entry is        *)
(* suggested and can_meet_target is false.                                 *)
C2_TargetMetWhenReachable ==
    OverLimitWithEligible =>
        IF FullSavings10(entries, EligibleIds(entries, last.year), last.year)
              >= 10 * last.target_reduction
        THEN /\ last.can_meet_target
             /\ last.achievable_reduction10 >= 10 * last.target_reduction
             /\ SumSavings10(last.suggestions) = last.achievable_reduction10
        ELSE /\ ~last.can_meet_target
             /\ SuggestedIds = EligibleIds(entries, last.year)

(* a target that takes more than one suggestion to reach, and is reached *)
C2_Witness ==
    /\ OverLimitWithEligible
    /\ last.can_meet_target
    /\ Len(last.suggestions) >= 2

(* C3, as stated: whenever an eligible entry is left out of the returned   *)
(* suggestions, no selected entry has a strictly lower deferral score      *)
(* than the one left out.                                                  *)
C3_GreedyByDeferralScore ==
    (last.op = "suggest_cuts" /\ last.over_limit) =>
        \A out \in EligibleIds(entries, last.year) \ SuggestedIds :
            \A k \in 1..Len(last.suggestions) :
                last.suggestions[k].deferral_score
                    >= CalculateDeferralScore(entries[out])

(* C4, as stated: across suggest_cuts and apply_suggestion requests (any   *)
(* action, any entry id) no yearly amount of an obligatory entry changes.  *)
C4_ObligatoryAmountsKept ==
    [][\A i \in 1..Len(entries) :
          entries[i].is_obligatory => entries'[i].kwota = entries[i].kwota]_vars

(* a step that is apply_suggestion changing a row *)
AppliedStep ==
    /\ last'.op = "apply_suggestion"
    /\ last'.success
    /\ ops' = ops + 1

(* C5, as stated: apply_suggestion on an existing entry. defer sets the    *)
(* source year's amount to 0 and raises the following year's amount by     *)
(* the old source-year amount; reduce with an explicit new amount sets the *)
(* source year's amount to it; both set the status to needs_revision and   *)
(* append a remark; no other entry and no other yearly amount changes.     *)
C5_ApplyFrameEffect ==
    [][AppliedStep =>
          LET id == last'.entry_id
              y == last'.year
              before == entries[id]
              after == entries'[id]
              touched == IF last'.action = "defer" THEN {y, y + 1} ELSE {y}
          IN  /\ last'.action = "defer" =>
                    /\ after.kwota[y] = 0
                    /\ y + 1 \in Years
                    /\ after.kwota[y + 1] = before.kwota[y + 1] + before.kwota[y]
              /\ (last'.action = "reduce" /\ last'.new_amount # None) =>
                    after.kwota[y] = last'.new_amount[1]
              /\ (last'.action = "defer"
                    \/ (last'.action = "reduce" /\ last'.new_amount # None)) =>
                    /\ after.status = "needs_revision"
                    /\ Len(after.uwagi) > Len(before.uwagi)
                    /\ SubSeq(after.uwagi, 1, Len(before.uwagi)) = before.uwagi
                    /\ \A z \in Years \ touched : after.kwota[z] = before.kwota[z]
                    /\ \A f \in DOMAIN before \ {"kwota", "status", "uwagi"} :
                          after[f] = before[f]
                    /\ Len(entries') = Len(entries)
                    /\ \A j \in 1..Len(entries) : j # id => entries'[j] = entries[j]]_vars

(* C6, as stated: in every state reached by entry creation, update_entry,  *)
(* apply_suggestion and resolve_conflict, all five yearly amounts of every *)
(* entry are non-negative.                                                 *)
C6_AmountsNonNegative ==
    \A i \in 1..Len(entries) : \A y \in Years : entries[i].kwota[y] >= 0

(* the pairs detect_conflicts has to look at: two rows of different        *)
(* departments, both with a positive amount in the year, a before b        *)
CrossDepartmentPairs(es, year) ==
    {p \in (1..Len(es)) \X (1..Len(es)) :
        /\ p[1] < p[2]
        /\ es[p[1]].department_id # es[p[2]].department_id
        /\ es[p[1]].kwota[year] > 0
        /\ es[p[2]].kwota[year] > 0}

ReturnedPairs == {<<last.conflicts[k].entry_a_id, last.conflicts[k].entry_b_id>> :
                     k \in 1..Len(last.conflicts)}

(* C7, as stated: detect_conflicts(year) is symmetric and cross-department *)
(* only: the similarity computed for (A,B) equals that for (B,A), every    *)
(* returned conflict pairs entries of different departments that both have *)
(* a positive amount in the year, and no unordered pair is returned twice. *)
C7_SymmetricCrossDepartment ==
    last.op = "detect_conflicts" =>
        /\ \A p \in CrossDepartmentPairs(entries, last.year) :
              CalculateSimilarity(entries[p[1]], entries[p[2]])
                  = CalculateSimilarity(entries[p[2]], entries[p[1]])
        /\ ReturnedPairs \subseteq CrossDepartmentPairs(entries, last.year)
        /\ \A k, m \in 1..Len(last.conflicts) :
              k # m => ~SamePair(last.conflicts[k], last.conflicts[m].entry_a_id,
                                 last.conflicts[m].entry_b_id)

(* the conflict type the thresholds give a similarity in hundredths *)
TypeOfHundredths(h) ==
    IF h >= DUPLICATE_PCT THEN "duplicate"
    ELSE IF h >= OVERLAP_PCT THEN "overlap"
    ELSE "semantic_similar"

(* C8, as stated: detect_conflicts returns exactly the cross-department    *)
(* pairs whose similarity is at least 0.6, by non-increasing similarity,   *)
(* and the conflict_type of every record agrees with its reported          *)
(* similarity_score: duplicate iff >= 0.85, overlap iff in [0.7, 0.85),    *)
(* semantic_similar iff in [0.6, 0.7).                                     *)
C8_TypeAgreesWithReportedScore ==
    last.op = "detect_conflicts" =>
        /\ ReturnedPairs =
              {p \in CrossDepartmentPairs(entries, last.year) :
                  FracGeq(CalculateSimilarity(entries[p[1]], entries[p[2]]),
                          SIMILARITY_THRESHOLD_PCT, 100)}
        /\ \A k, m \in 1..Len(last.conflicts) :
              k < m => last.conflicts[k].similarity_score
                          >= last.conflicts[m].similarity_score
        /\ \A k \in 1..Len(last.conflicts) :
              /\ last.conflicts[k].similarity_score >= SIMILARITY_THRESHOLD_PCT
              /\ last.conflicts[k].conflict_type
                    = TypeOfHundredths(last.conflicts[k].similarity_score)

(* C8, amended: detect_conflicts returns exactly the cross-department      *)
(* pairs (earlier row, later row) whose similarity is at least 0.6, each   *)
(* once, by non-increasing reported similarity_score; the reported score   *)
(* is the similarity rounded to two decimals, and the conflict_type agrees *)
(* with the unrounded similarity: duplicate iff >= 0.85, overlap iff in    *)
(* [0.7, 0.85), semantic_similar iff in [0.6, 0.7).                        *)
C8_TypeAgreesWithSimilarity ==
    last.op = "detect_conflicts" =>
        /\ ReturnedPairs =
              {p \in CrossDepartmentPairs(entries, last.year) :
                  FracGeq(CalculateSimilarity(entries[p[1]], entries[p[2]]),
                          SIMILARITY_THRESHOLD_PCT, 100)}
        /\ Len(last.conflicts) = Cardinality(ReturnedPairs)
        /\ \A k, m \in 1..Len(last.conflicts) :
              k < m => last.conflicts[k].similarity_score
                          >= last.conflicts[m].similarity_score
        /\ \A k \in 1..Len(last.conflicts) :
              LET c == last.conflicts[k]
                  sim == CalculateSimilarity(entries[c.entry_a_id], entries[c.entry_b_id])
              IN  /\ 200 * sim.num - sim.den <= 2 * sim.den * c.similarity_score
                  /\ 2 * sim.den * c.similarity_score <= 200 * sim.num + sim.den
                  /\ c.conflict_type = "duplicate" <=> 100 * sim.num >= 85 * sim.den
                  /\ c.conflict_type = "overlap" <=>
                        (100 * sim.num >= 70 * sim.den /\ 100 * sim.num < 85 * sim.den)
                  /\ c.conflict_type = "semantic_similar" <=>
                        (100 * sim.num >= 60 * sim.den /\ 100 * sim.num < 70 * sim.den)

(* two conflicts were returned, one of them an overlap reported as 0.85 *)
C8_Witness ==
    /\ last.op = "detect_conflicts"
    /\ Len(last.conflicts) >= 2
    /\ last.conflicts[1].similarity_score > last.conflicts[Len(last.conflicts)].similarity_score
    /\ \E k \in 1..Len(last.conflicts) :
          /\ last.conflicts[k].similarity_score = 85
          /\ last.conflicts[k].conflict_type = "overlap"

(* two rows that carry the same text and the same paragraph code *)
OtherwiseIdentical(a, b) ==
    /\ a.nazwa_zadania = b.nazwa_zadania
    /\ a.opis_projektu = b.opis_projektu
    /\ a.szczegolowe_uzasadnienie = b.szczegolowe_uzasadnienie
    /\ a.paragraf = b.paragraf

ComparedIdentical ==
    /\ last.op = "calculate_similarity"
    /\ OtherwiseIdentical(entries[last.entry_a_id], entries[last.entry_b_id])

(* C9, as stated: for two entries with the same text and the same          *)
(* paragraph code _calculate_similarity returns 1.0.                       *)
C9_IdenticalEntriesScoreOne ==
    ComparedIdentical => last.similarity = Frac(1, 1)

(* C9, amended: for two entries with the same text and the same paragraph  *)
(* code _calculate_similarity returns 1.0 when the text contains a keyword *)
(* of at least one category, and 0.6 when it contains none.                *)
C9_IdenticalEntriesScoreByTags ==
    ComparedIdentical =>
        last.similarity =
            IF \E c \in Categories :
                  ContainsAny(NormalizeContent(entries[last.entry_a_id]),
                              CATEGORY_KEYWORDS[c])
            THEN Frac(1, 1)
            ELSE Frac(3, 5)

(* two different rows with the same untagged text were compared *)
C9_Witness ==
    /\ ComparedIdentical
    /\ last.entry_a_id # last.entry_b_id
    /\ entries[last.entry_a_id].department_id # entries[last.entry_b_id].department_id
    /\ last.similarity = Frac(3, 5)

(* a step that is resolve_conflict(consolidate) keeping a row of the pair *)
ConsolidatedStep ==
    /\ last'.op = "resolve_conflict"
    /\ last'.success
    /\ last'.resolution = "consolidate"
    /\ ops' = ops + 1
    /\ last'.keep_entry_id[1] \in {conflicts[last'.conflict_id].entry_a_id,
                                   conflicts[last'.conflict_id].entry_b_id}

(* C10: resolve_conflict(consolidate) on a conflict between A and B that   *)
(* keeps A leaves, for every year 2025..2029, the kept entry's amount at   *)
(* 0.85 x (A's prior amount + B's prior amount), and the conflict marked   *)
(* resolved.                                                               *)
C10_ConsolidatedAmount ==
    [][ConsolidatedStep =>
          LET c == conflicts[last'.conflict_id]
              keep == last'.keep_entry_id[1]
              other == IF keep = c.entry_a_id THEN c.entry_b_id ELSE c.entry_a_id
          IN  /\ \A y \in Years :
                    20 * entries'[keep].kwota[y]
                        = 17 * (entries[keep].kwota[y] + entries[other].kwota[y])
              /\ conflicts'[last'.conflict_id].resolution_status = "resolved"]_vars

(* 100 and 50 were consolidated into 127.5 *)
C10_Witness ==
    /\ last.op = "resolve_conflict"
    /\ last.success
    /\ last.resolution = "consolidate"
    /\ conflicts[last.conflict_id].resolution_status = "resolved"
    /\ last.keep_entry_id[1] = conflicts[last.conflict_id].entry_a_id
    /\ 2 * entries[last.keep_entry_id[1]].kwota[FirstYear] = 255 * MoneyScale
    /\ entries[conflicts[last.conflict_id].entry_b_id].kwota[FirstYear] = 0

(* the row the latest validate request looked at *)
Validated == last.op = "validate_entry" /\ last.success
ValidatedEntry == entries[last.entry_id]

(* what the amount check and the required-field check take off the score *)
OtherDeductions(entry) ==
    (IF Len(ValidateAmounts(entry)) > 0 THEN AMOUNT_PENALTY ELSE 0)
    + FIELD_PENALTY * Len(ValidateRequiredFields(entry))

CurrentWithInvestmentKeyword(entry) ==
    /\ entry.paragraf \in CURRENT_PARAGRAFS
    /\ \E kw \in INVESTMENT_KEYWORDS : Contains(ComplianceContent(entry), kw)

(* C11: an entry of a 'current' paragraph whose text holds at least one    *)
(* investment keyword gets suggested_paragraf 6060, exactly one            *)
(* auto-correction (of the paragraph), and a score that is 20 below what   *)
(* the other checks leave, however many keywords the text holds.           *)
C11_InvestmentKeywordSuggests6060 ==
    (Validated /\ CurrentWithInvestmentKeyword(ValidatedEntry)) =>
        /\ last.validation.suggested_paragraf = 6060
        /\ last.validation.auto_corrections =
              <<[field |-> "paragraf", original |-> ValidatedEntry.paragraf,
                 corrected |-> 6060]>>
        /\ last.validation.compliance_score =
              100 - 20 - OtherDeductions(ValidatedEntry)

(* a 'current' entry naming two investment keywords, validated *)
C11_Witness ==
    /\ Validated
    /\ ValidatedEntry.paragraf = 4210
    /\ Cardinality({kw \in INVESTMENT_KEYWORDS :
                        Contains(ComplianceContent(ValidatedEntry), kw)}) = 2
    /\ OtherDeductions(ValidatedEntry) = 0
    /\ last.validation.compliance_score = 80

(* C12: the compliance score validate_entry returns lies in 0..100, and    *)
(* is_valid is true exactly when that score is at least 70.                *)
C12_ScoreClampedAndValidFrom70 ==
    Validated =>
        /\ last.validation.compliance_score \in 0..100
        /\ last.validation.is_valid <=> (last.validation.compliance_score >= 70)

(* an entry validated with the score exactly 70, which is valid *)
C12_Witness ==
    /\ Validated
    /\ last.validation.compliance_score = 70
    /\ last.validation.is_valid

InSeq(x, s) == \E k \in 1..Len(s) : s[k] = x

(* C13: an entry with no paragraph code gets the missing-classification    *)
(* warning from validate_entry, with no auto-correction and no suggested   *)
(* paragraph.                                                              *)
C13_MissingParagrafWarned ==
    (Validated /\ ValidatedEntry.paragraf = NoParagraf) =>
        /\ InSeq("missing_paragraf", last.validation.warnings)
        /\ last.validation.auto_corrections = <<>>
        /\ last.validation.suggested_paragraf = 0

(* a step that serves a submit request for a row that exists *)
SubmitStep ==
    /\ ops' = ops + 1
    /\ last'.op = "submit"
    /\ last'.entry_id \in 1..Len(entries)

(* the conditions of a submission, read off the row and its department *)
SubmissionAllowed(entry) ==
    /\ ValidateEntry(entry).compliance_score >= 50
    /\ entry.nazwa_zadania # NoText \/ entry.opis_projektu # NoText
    /\ entry.paragraf # NoParagraf
    /\ \E y \in {2025, 2026, 2027} : entry.kwota[y] # 0
    /\ entry.department_id \in Departments =>
          /\ ~departments[entry.department_id].edits_locked
          /\ departments[entry.department_id].edit_deadline # "past"

(* C14: a submit request sets the status to submitted (and answers 200)    *)
(* when the score is at least 50, the entry has a name or description, a   *)
(* paragraph, a nonzero amount in 2025-2027, and a department that is      *)
(* neither locked nor past its deadline; otherwise it answers an error     *)
(* and leaves status and compliance_validated as they were.                *)
C14_SubmitGated ==
    [][SubmitStep =>
          LET id == last'.entry_id
          IN  IF SubmissionAllowed(entries[id])
              THEN /\ last'.status_code = 200
                   /\ entries'[id].status = "submitted"
              ELSE /\ last'.status_code \in 400..499
                   /\ entries'[id].status = entries[id].status
                   /\ entries'[id].compliance_validated = entries[id].compliance_validated]_vars

(* a submission that went through while the other department was locked *)
C14_Witness ==
    /\ last.op = "submit"
    /\ last.entry_id \in 1..Len(entries)
    /\ last.status_code = 200
    /\ entries[last.entry_id].status = "submitted"
    /\ entries[last.entry_id].compliance_validated
    /\ \E d \in Departments : departments[d].edits_locked

(* the latest response is a report of the orchestrator *)
Reported == last.op = "orchestrator_analyze"

(* the departments with a row that is neither submitted nor approved *)
PendingDepartments ==
    {d \in Departments :
        \E i \in 1..Len(entries) :
            /\ entries[i].department_id = d
            /\ entries[i].status \notin {"submitted", "approved"}}

(* C15: the reported phase is collection if more departments are pending   *)
(* than complete, else cutting if the year's total exceeds the global      *)
(* limit, else finalization if no department is pending, else approval; a  *)
(* department is complete iff all its entries are submitted or approved.   *)
(* So finalization or approval implies total <= limit, and finalization    *)
(* implies no pending department.                                          *)
C15_PhasePrecedence ==
    Reported =>
        LET state == last.state
            pending == PendingDepartments
            more_pending == Cardinality(pending) > Cardinality(Departments \ pending)
            total == SumKwota(entries, state.year)
            over == total > GlobalLimitOrZero(limits, state.year)
        IN  /\ state.departments_pending = pending
            /\ state.departments_completed = Departments \ pending
            /\ state.current_phase = "collection" <=> more_pending
            /\ state.current_phase = "cutting" <=> (~more_pending /\ over)
            /\ state.current_phase = "finalization" <=>
                  (~more_pending /\ ~over /\ pending = {})
            /\ state.current_phase = "approval" <=>
                  (~more_pending /\ ~over /\ pending # {})
            /\ state.current_phase \in {"finalization", "approval"} =>
                  state.total_requests <= state.global_limit
            /\ state.current_phase = "finalization" => state.departments_pending = {}

(* a report of phase approval under a limit that was set: one department   *)
(* pending, one complete, the total within the limit                       *)
C15_Witness ==
    /\ Reported
    /\ last.state.current_phase = "approval"
    /\ GlobalLimitIndex(limits, last.state.year) # 0
    /\ last.state.total_requests > 0
    /\ Cardinality(last.state.departments_pending) = 1

PhaseRank(phase) ==
    CASE phase = "collection" -> 1
      [] phase = "cutting" -> 2
      [] phase = "approval" -> 3
      [] phase = "finalization" -> 4

(* the phase the orchestrator reports for the year when asked now *)
CurrentPhase(year) == InitializeWorkflow(entries, limits, year).current_phase

(* C16: the phases follow the order collection, cutting, approval,         *)
(* finalization: across the store operations the orchestrator never        *)
(* reports an earlier phase than one it has reported. The report is a      *)
(* read that can be asked for in every state, so this is the same as: no   *)
(* step takes the phase it would report to an earlier one.                 *)
C16_PhaseNeverGoesBack ==
    [][\A year \in LimitYears :
          PhaseRank(CurrentPhase(year)') >= PhaseRank(CurrentPhase(year))]_vars

(* the latest response is a forecast *)
Forecasted == last.op = "forecast_budget" /\ last.success

(* C17 as stated: within a forecast the confidence is strictly decreasing  *)
(* in the year offset and never below 0.5.                                 *)
C17_ConfidenceStrictlyDecreasing ==
    Forecasted =>
        \A i, j \in 1..Len(last.forecasts) :
            i < j => /\ last.forecasts[i].confidence > last.forecasts[j].confidence
                     /\ last.forecasts[i].confidence >= 50

(* C17, amended: the confidence is never below 0.5 and never increases     *)
(* with the offset; it is strictly decreasing up to offset 4 (0.85, 0.70,  *)
(* 0.55, 0.50) and stays 0.50 from offset 4 on.                            *)
C17_ConfidenceDecreasingToFloor ==
    Forecasted =>
        /\ \A i \in 1..Len(last.forecasts) : last.forecasts[i].confidence >= 50
        /\ \A i, j \in 1..Len(last.forecasts) :
              i < j => IF j <= 4
                       THEN last.forecasts[i].confidence > last.forecasts[j].confidence
                       ELSE /\ last.forecasts[i].confidence >= last.forecasts[j].confidence
                            /\ last.forecasts[j].confidence = 50

(* a forecast over five years: offsets 4 and 5 both at the floor *)
C17_Witness ==
    /\ Forecasted
    /\ Len(last.forecasts) >= 5
    /\ last.forecasts[3].confidence = 55
    /\ last.forecasts[4].confidence = 50
    /\ last.forecasts[5].confidence = 50

(* the latest response is the list of anomalies of a year *)
Detected == last.op = "detect_anomalies"

(* the rows with a positive amount in the year are small rows of 10 and    *)
(* large rows of 1000 thousand PLN, so many of each                        *)
AmountsAre(small, large) ==
    LET ids == PositiveRows(entries, last.year)
    IN  /\ Len(ids) = small + large
        /\ Cardinality({k \in 1..Len(ids) : Kwota(entries[ids[k]], last.year) = Amt(10)}) = small
        /\ Cardinality({k \in 1..Len(ids) : Kwota(entries[ids[k]], last.year) = Amt(1000)}) = large

OutliersReported ==
    {last.anomalies[k].entry_id : k \in {k \in 1..Len(last.anomalies) :
                                            last.anomalies[k].type = "outlier"}}

C19_LimitRecordsConsistent ==
    /\ \A i, j \in 1..Len(limits) : limits[i].year = limits[j].year => i = j
    /\ \A i \in 1..Len(limits) :
          limits[i].variance = limits[i].current_total - limits[i].total_limit
    /\ (last.op = "ingest_excel" /\ last.success) =>
          \E i \in 1..Len(limits) :
              /\ limits[i].year = 2025
              /\ limits[i].current_total = SumKwota(entries, 2025)

(* a step that serves a detect request *)
DetectStep == last'.op = "detect_conflicts" /\ ops' = ops + 1

PairOf(c) == {c.entry_a_id, c.entry_b_id}

(* the conflict of the answer that names the pair of the record *)
ReturnedFor(answer, c) ==
    CHOOSE k \in 1..Len(answer) : PairOf(answer[k]) = PairOf(c)

(* C20: the store holds at most one conflict record per unordered pair of  *)
(* entries; a detect request that finds a recorded pair again writes the   *)
(* similarity and the type into the record of the pair and inserts none,   *)
(* leaves the other records as they are, and inserts one record with       *)
(* status pending for each pair found that had none.                       *)
C20_UpsertByUnorderedPair ==
    /\ [](\A i, j \in 1..Len(conflicts) :
              PairOf(conflicts[i]) = PairOf(conflicts[j]) => i = j)
    /\ [][DetectStep =>
            LET answer == last'.conflicts
                found == {PairOf(answer[k]) : k \in 1..Len(answer)}
                recorded == {PairOf(conflicts[i]) : i \in 1..Len(conflicts)}
            IN  /\ Len(conflicts') = Len(conflicts) + Cardinality(found \ recorded)
                /\ \A i \in 1..Len(conflicts) :
                      IF PairOf(conflicts[i]) \in found
                      THEN LET c == answer[ReturnedFor(answer, conflicts[i])]
                           IN  conflicts'[i] =
                                 [conflicts[i] EXCEPT
                                    !.similarity_score =
                                        CalculateSimilarity(entries[c.entry_a_id],
                                                            entries[c.entry_b_id]),
                                    !.conflict_type = c.conflict_type]
                      ELSE conflicts'[i] = conflicts[i]
                /\ \A i \in (Len(conflicts) + 1)..Len(conflicts') :
                      /\ conflicts'[i].resolution_status = "pending"
                      /\ PairOf(conflicts'[i]) \in found \ recorded]_vars

(* after two requests: a detect request has answered with a pair, and the  *)
(* store holds one record for it                                           *)
C20_Witness ==
    /\ last.op = "detect_conflicts"
    /\ ops = 2
    /\ Len(last.conflicts) >= 1
    /\ \A k \in 1..Len(last.conflicts) :
          Cardinality({i \in 1..Len(conflicts) :
                          PairOf(conflicts[i]) = PairOf(last.conflicts[k])}) = 1

(* a step that is resolve_conflict answering success *)
ResolvedStep ==
    /\ last'.op = "resolve_conflict"
    /\ last'.success
    /\ ops' = ops + 1

(* C21: on the removed entry, a consolidation that is carried out sets     *)
(* exactly the 2025, 2026 and 2027 amounts to 0 and leaves the 2028 and    *)
(* 2029 amounts unchanged; resolution keep_both changes no amount of any   *)
(* entry; both resolutions set the conflict's status to resolved.          *)
C21_RemovedYearsAndKeepBoth ==
    [][ResolvedStep =>
          LET conflict == conflicts[last'.conflict_id]
              remove_id == RemoveIdOf(conflict, last'.keep_entry_id)
          IN  /\ Consolidating(entries, conflict, last'.resolution, last'.keep_entry_id) =>
                    \A y \in Years :
                        entries'[remove_id].kwota[y] =
                            IF y \in {2025, 2026, 2027} THEN 0
                            ELSE entries[remove_id].kwota[y]
              /\ last'.resolution = "keep_both" =>
                    /\ Len(entries') = Len(entries)
                    /\ \A i \in 1..Len(entries) : entries'[i].kwota = entries[i].kwota
              /\ last'.resolution \in {"consolidate", "keep_both"} =>
                    conflicts'[last'.conflict_id].resolution_status = "resolved"]_vars

(* a consolidation removed a row with amounts in 2025 and in 2029: the     *)
(* 2025 amount is 0 and the 2029 amount is still there                     *)
C21_Witness ==
    /\ last.op = "resolve_conflict"
    /\ last.success
    /\ last.resolution = "consolidate"
    /\ conflicts[last.conflict_id].resolution_status = "resolved"
    /\ LET remove_id == RemoveIdOf(conflicts[last.conflict_id], last.keep_entry_id)
       IN  /\ entries[remove_id].nazwa_zadania = T_LAN_A
           /\ entries[remove_id].kwota[2025] = 0
           /\ entries[remove_id].kwota[2029] = Amt(50)

(* a step that serves resolve_conflict for a conflict id that is no row *)
UnknownConflictStep ==
    /\ ops' = ops + 1
    /\ last'.op = "resolve_conflict"
    /\ last'.conflict_id \notin 1..Len(conflicts)

(* a step that serves resolve_conflict(consolidate) with no keep_entry_id *)
NoKeepEntryStep ==
    /\ ops' = ops + 1
    /\ last'.op = "resolve_conflict"
    /\ last'.conflict_id \in 1..Len(conflicts)
    /\ last'.resolution = "consolidate"
    /\ last'.keep_entry_id = None

(* a step that serves apply_suggestion for an entry id that is no row *)
UnknownEntryStep ==
    /\ ops' = ops + 1
    /\ last'.op = "apply_suggestion"
    /\ last'.entry_id \notin 1..Len(entries)

(* C22: resolve_conflict with an unknown conflict id, resolve_conflict     *)
(* (consolidate) without a keep-entry id and apply_suggestion with an      *)
(* unknown entry id each answer success = false and leave every entry and  *)
(* every conflict record unchanged, so the conflict stays pending.         *)
C22_NotFoundHasNoEffect ==
    [][(UnknownConflictStep \/ NoKeepEntryStep \/ UnknownEntryStep) =>
          /\ ~last'.success
          /\ entries' = entries
          /\ conflicts' = conflicts]_vars

(* consolidate without keep_entry_id was refused on a pending conflict of  *)
(* a store with rows                                                       *)
C22_Witness ==
    /\ last.op = "resolve_conflict"
    /\ ~last.success
    /\ last.resolution = "consolidate"
    /\ last.keep_entry_id = None
    /\ last.conflict_id \in 1..Len(conflicts)
    /\ conflicts[last.conflict_id].resolution_status = "pending"
    /\ Len(entries) >= 2

(* a BZ code that is present, is no sentinel and does not match the        *)
(* four-segment dotted-numeric pattern                                     *)
MalformedBz(bz) ==
    /\ bz # NoText
    /\ bz # <<"0">>
    /\ Lower(bz) \notin BZ_SENTINELS
    /\ ~BzPatternMatches(bz)

(* what the paragraph, amount and required-field checks take off the score *)
DeductionsBesideBz ==
    (IF last.validation.suggested_paragraf # 0 THEN PARAGRAF_PENALTY ELSE 0)
    + OtherDeductions(ValidatedEntry)

(* C23, as stated: a BZ code that is present, is no sentinel (0, nd, n/d,  *)
(* nan, empty) and does not match the pattern makes validate_entry emit a  *)
(* format warning and lowers the compliance score by 15; a sentinel or a   *)
(* well-formed code produces no warning and no deduction.                  *)
C23_BzFormatDeducts15 ==
    Validated =>
        IF MalformedBz(ValidatedEntry.beneficjent_zadaniowy)
        THEN /\ InSeq("bz_format", last.validation.warnings)
             /\ last.validation.compliance_score = 100 - DeductionsBesideBz - 15
        ELSE /\ ~InSeq("bz_format", last.validation.warnings)
             /\ last.validation.compliance_score = 100 - DeductionsBesideBz

(* the latest response is the result of optimize_multi_year_allocation *)
Optimized == last.op = "optimize_multi_year_allocation"

(* the rows the allocation may not defer, and the others *)
ObligatoryIds == {i \in 1..Len(entries) :
                     entries[i].is_obligatory \/ entries[i].priority = OBOWIAZKOWY}
OtherIds == (1..Len(entries)) \ ObligatoryIds

(* the listed years after y, and the one that follows y immediately *)
LaterYears(listed, y) == {z \in listed : z > y}
FollowingYear(listed, y) == CHOOSE z \in LaterYears(listed, y) :
                                \A w \in LaterYears(listed, y) : z <= w

(* the sum of the amounts of the shifts into year z *)
RECURSIVE ShiftedInto(_, _)
ShiftedInto(shifts, z) ==
    IF Len(shifts) = 0 THEN 0
    ELSE (IF Head(shifts).to_year = z THEN Head(shifts).amount ELSE 0)
         + ShiftedInto(Tail(shifts), z)

(* C24: optimize_multi_year_allocation. For each year the deferrable       *)
(* allocation is min(requested deferrable, max(0, limit - non-deferrable   *)
(* total)); no year has both gap > 0 and surplus > 0; a shift is suggested *)
(* from year y exactly when y has a positive gap and the immediately       *)
(* following listed year has a positive surplus, with amount min(gap of y, *)
(* surplus of next year); no shift targets any other year than the         *)
(* immediate successor, so the shifts into a year never exceed its surplus.*)
C24_SingleStepShifts ==
    Optimized =>
        LET allocation == last.result.allocation
            shifts == last.result.suggested_shifts
            listed == DOMAIN last.total_limit
        IN  /\ DOMAIN allocation = listed
            /\ \A y \in listed :
                  LET requested == SumAmounts(entries, OtherIds, y)
                      non_deferrable == SumAmounts(entries, ObligatoryIds, y)
                  IN  /\ allocation[y].deferrable_allocated =
                            Min(requested, Max(0, last.total_limit[y] - non_deferrable))
                      /\ ~(allocation[y].gap > 0 /\ allocation[y].surplus > 0)
            /\ \A y \in listed :
                  LET from_y == {k \in 1..Len(shifts) : shifts[k].from_year = y}
                  IN  IF /\ LaterYears(listed, y) # {}
                         /\ allocation[y].gap > 0
                         /\ allocation[FollowingYear(listed, y)].surplus > 0
                      THEN /\ Cardinality(from_y) = 1
                           /\ \A k \in from_y :
                                 /\ shifts[k].to_year = FollowingYear(listed, y)
                                 /\ shifts[k].amount =
                                       Min(allocation[y].gap,
                                           allocation[FollowingYear(listed, y)].surplus)
                      ELSE from_y = {}
            /\ \A k \in 1..Len(shifts) : shifts[k].from_year \in listed
            /\ \A z \in listed : ShiftedInto(shifts, z) <= allocation[z].surplus

(* limits for 2025 and 2027 only: the gap of 2025 is larger than the       *)
(* surplus of 2027, and the shift into 2027 takes that surplus             *)
C24_Witness ==
    /\ Optimized
    /\ DOMAIN last.total_limit = {2025, 2027}
    /\ Len(last.result.suggested_shifts) = 1
    /\ last.result.suggested_shifts[1].to_year = 2027
    /\ last.result.suggested_shifts[1].amount = last.result.allocation[2027].surplus
    /\ last.result.allocation[2025].gap > last.result.allocation[2027].surplus
    /\ last.result.allocation[2025].non_deferrable > 0

(* C25, as stated: resolve_conflict(consolidate) changes amounts and       *)
(* remarks only of the two entries named by the conflict record: for every *)
(* keep_entry_id, including one that is not entry_a or entry_b of the      *)
(* conflict, no entry outside the conflict's pair is modified.             *)
C25_OnlyThePairChanges ==
    [][(ResolvedStep /\ last'.resolution = "consolidate") =>
          LET conflict == conflicts[last'.conflict_id]
          IN  /\ Len(entries') = Len(entries)
              /\ \A i \in 1..Len(entries) :
                    i \notin {conflict.entry_a_id, conflict.entry_b_id} =>
                        entries'[i] = entries[i]]_vars

(* C26, as stated: consolidation never increases planned spending: for     *)
(* each year 2025..2029, the sum of the kept and removed entries' amounts  *)
(* after resolve_conflict(consolidate) is less than or equal to their sum  *)
(* before it.                                                              *)
C26_ConsolidationNeverIncreases ==
    [][(ResolvedStep /\ Consolidating(entries, conflicts[last'.conflict_id],
                                      last'.resolution, last'.keep_entry_id)) =>
          LET keep == last'.keep_entry_id[1]
              remove_id == RemoveIdOf(conflicts[last'.conflict_id], last'.keep_entry_id)
          IN  \A y \in Years :
                  entries'[keep].kwota[y] + entries'[remove_id].kwota[y]
                      <= entries[keep].kwota[y] + entries[remove_id].kwota[y]]_vars

(* C27, as stated: resolving a conflict is idempotent on entries: calling  *)
(* resolve_conflict (consolidate or keep_both) on a conflict whose status  *)
(* is already resolved changes no entry's amounts, so the 15% discount and *)
(* merge are applied at most once per conflict.                            *)
C27_ResolvedConflictStaysPut ==
    [][(ResolvedStep /\ conflicts[last'.conflict_id].resolution_status = "resolved") =>
          /\ Len(entries') = Len(entries)
          /\ \A i \in 1..Len(entries) : entries'[i].kwota = entries[i].kwota]_vars

(* the sum of the five stored yearly amounts of a row *)
FiveYearSum(entry) ==
    entry.kwota[2025] + entry.kwota[2026] + entry.kwota[2027]
        + entry.kwota[2028] + entry.kwota[2029]

(* C28, as stated: deferral conserves money: for every source year         *)
(* 2025..2029, apply_suggestion(defer) leaves the sum of the entry's five  *)
(* stored yearly amounts unchanged.                                        *)
C28_DeferralConservesMoney ==
    [][(AppliedStep /\ last'.action = "defer" /\ last'.year \in Years) =>
          FiveYearSum(entries'[last'.entry_id]) = FiveYearSum(entries[last'.entry_id])]_vars

(* C29: for every entry, validate_entry returns a compliance score of at   *)
(* least 55, so the score < 50 gate of the submit action and of submit-all *)
(* never rejects an entry: a refused submit has missing-field errors, and  *)
(* a row left out by submit-all has no name or no paragraph.               *)
C29_ScoreAtLeast55 ==
    Validated =>
        /\ last.validation.compliance_score >= 55
        /\ ~(last.validation.compliance_score < SCORE_GATE)
        /\ SubmitStatusCode(ValidatedEntry) = 400 => Len(SubmitErrors(ValidatedEntry)) > 0
        /\ SubmittedInBulk(ValidatedEntry) = ValidatedEntry =>
              \/ ~(Truthy(ValidatedEntry.nazwa_zadania) \/ Truthy(ValidatedEntry.opis_projektu))
              \/ ValidatedEntry.paragraf = NoParagraf

(* the lowest score, 60: a 'current' paragraph, an investment keyword in   *)
(* the investment task, an amount warning, no name and no department       *)
C29_Witness ==
    /\ Validated
    /\ last.validation.compliance_score = 60
    /\ last.validation.suggested_paragraf = 6060
    /\ Len(ValidateAmounts(ValidatedEntry)) > 0
    /\ Len(ValidateRequiredFields(ValidatedEntry)) = 2
    /\ SubmitStatusCode(ValidatedEntry) = 400

(* low or discretionary, in the words of either vocabulary *)
LowOrDiscretionary(entry) ==
    entry.priority \in {NISKI, UZNANIOWY, P_LOW, P_DISCRETIONARY}

(* C30, as stated: every entry stored by spreadsheet ingestion or by the   *)
(* create-entry API has a priority that is one of the five PriorityLevel   *)
(* values the optimizer recognises, so that its deferral score uses its    *)
(* own priority weight, and a stored low or discretionary entry with no    *)
(* signed contract, in-progress stage or protected keyword is classified   *)
(* deferrable.                                                             *)
C30_StoredPriorityRecognised ==
    \A i \in 1..Len(entries) :
        /\ entries[i].priority \in PriorityLevel
        /\ CalculateDeferralScore([entries[i] EXCEPT !.nazwa_zadania = NoText,
                                      !.opis_projektu = NoText,
                                      !.szczegolowe_uzasadnienie = NoText,
                                      !.uwagi = NoText, !.umowy = NoText,
                                      !.etap_dzialan = NoText])
              = 100 - PRIORITY_WEIGHTS[entries[i].priority]
        /\ (/\ LowOrDiscretionary(entries[i])
            /\ ~ContractSigned(entries[i])
            /\ ~StageInProgress(entries[i])
            /\ ~ContainsAny(GetEntryContent(entries[i]), PROTECTED_KEYWORDS))
              => IsDeferrable(entries[i])

====
